---- MODULE Spec2Model ----
(***************************************************************************)
(* Model of the liquid-handling protocols of BardLab_Opentrons:            *)
(*   protocols/BombBio_Trizol_RNA_reuse_noShake_v3.py   ("noShake")        *)
(*   protocols/BombBio_Trizol_RNA_reuse_shake_v1.py     ("shake")          *)
(*   protocols/Yeast_OPP_v1.py                          ("yeast")          *)
(*   protocols/UltraExpress/P1_V1.py .. P4_V1.py        ("P1" .. "P4")     *)
(* A behaviour is either one execution of a protocol's run() for one       *)
(* choice of runtime parameters (mode "run": pc walks the statements of    *)
(* run in order), or a sequence of calls of the protocol's helper          *)
(* functions on the deck as run() sets it up (mode "calls").               *)
(* Columns 'A1'..'A12' are the integers 1..12; Python's None is "None".    *)
(***************************************************************************)
EXTENDS Integers, Sequences, FiniteSets, TLC

\* ------------------------------------------------------------------ bounds
MaxCalls == 26      \* tip helper calls made in mode "calls"
MaxSwapCalls == 1   \* direct tip-box swaps among them
MaxRemoveCalls == 2 \* remove() calls made in mode "calls"
MaxBind  == 2       \* largest NBIND explored (the parameter allows 1..10)

\* ------------------------------------------------------- program constants
RackCols        == 12        \* columns of a 96-tip rack, get_next_tip's limit
WasteLimit      == 150000    \* removeSup's waste threshold in uL
Channels        == 8         \* channels of the 8-channel pipettes
MinSup          == 100       \* removeSup's smallest SUPVOL
UEMaxVol        == 200       \* UltraExpress volume limit in uL
UEMaxSamples    == 96        \* UltraExpress sample limit

OFF_DECK == "OFF_DECK"
None     == "None"

TipTypes == {"tip50", "tip1000"}
TipFiles == {"noShake", "shake", "yeast"}

VARIABLES
  proto,            \* the protocol file being executed
  mode,             \* "run": run() executes; "calls": helper calls
  params,           \* protocol.params, the runtime parameters
  pc,               \* index of the next statement of run()
  ncalls,           \* helper calls made so far in mode "calls"
  loc,              \* labware |-> deck slot, module/adapter or OFF_DECK
  ACTIVE_TIPRACKS,  \* tip type |-> [deckslot, rack]
  BACKUP_TIPRACKS,  \* tip type |-> sequence of racks
  TIPS_USED,        \* tip type |-> tips used in the active box
  nracks,           \* tip racks loaded so far by load_labware
  picked,           \* <<rack, column>> pairs picked up by get_next_tip
  repick,           \* get_next_tip picked a pair it had picked before
  lastPick,         \* [rack, col, tip] of the last get_next_tip pick
  hold,             \* pipette |-> tip it holds, <<>> when none
  raised,           \* message of the exception that ended the run
  lastSwap,         \* the last tip-box swap: what it saw, left and returned
  lastCall,         \* the last transfer_tracktips / remove call: its arguments
  WASTEVOL,         \* COUNTERS['WASTEVOL']
  reservoir,        \* liquid in the waste reservoir since it was emptied
  tipvol,           \* supernatant counted but not yet dispensed
  wastePauses,      \* 'Please empty the waste' pauses issued
  dnase,            \* sample column |-> DNase transfers received
  rebind,           \* sample column |-> binding-buffer dispenses received
  rebindSrc,        \* binding-buffer column |-> dispenses served
  latch,            \* heater-shaker latch: "open", "closed", "idle"
  shaking,          \* heater-shaker is shaking
  log,              \* commands of interest issued, in order
  hw,               \* number of hardware commands issued
  occupied,         \* <<labware, location>> moves and loads onto a taken place
  lid,              \* thermocycler lid: "open", "closed", "unknown"
  tips              \* UltraExpress tip counters and rack lists

vars == <<proto, mode, params, pc, ncalls, loc, ACTIVE_TIPRACKS,
          BACKUP_TIPRACKS, TIPS_USED, nracks, picked, repick, lastPick,
          hold, raised, lastSwap, lastCall, WASTEVOL, reservoir, tipvol, wastePauses,
          dnase, rebind, rebindSrc, latch, shaking, log, hw, occupied, lid,
          tips>>

\* The protocol context as one record, so that helper functions compose.
Ctx ==
  [proto |-> proto, params |-> params, loc |-> loc,
   ACTIVE_TIPRACKS |-> ACTIVE_TIPRACKS, BACKUP_TIPRACKS |-> BACKUP_TIPRACKS,
   TIPS_USED |-> TIPS_USED, nracks |-> nracks, picked |-> picked,
   repick |-> repick, lastPick |-> lastPick, hold |-> hold,
   raised |-> raised, lastSwap |-> lastSwap, lastCall |-> lastCall,
   WASTEVOL |-> WASTEVOL,
   reservoir |-> reservoir, tipvol |-> tipvol, wastePauses |-> wastePauses,
   dnase |-> dnase, rebind |-> rebind, rebindSrc |-> rebindSrc,
   latch |-> latch, shaking |-> shaking, log |-> log, hw |-> hw,
   occupied |-> occupied, lid |-> lid, tips |-> tips]

Apply(c) ==
  /\ loc' = c.loc
  /\ ACTIVE_TIPRACKS' = c.ACTIVE_TIPRACKS
  /\ BACKUP_TIPRACKS' = c.BACKUP_TIPRACKS
  /\ TIPS_USED' = c.TIPS_USED
  /\ nracks' = c.nracks
  /\ picked' = c.picked
  /\ repick' = c.repick
  /\ lastPick' = c.lastPick
  /\ hold' = c.hold
  /\ raised' = c.raised
  /\ lastSwap' = c.lastSwap
  /\ lastCall' = c.lastCall
  /\ WASTEVOL' = c.WASTEVOL
  /\ reservoir' = c.reservoir
  /\ tipvol' = c.tipvol
  /\ wastePauses' = c.wastePauses
  /\ dnase' = c.dnase
  /\ rebind' = c.rebind
  /\ rebindSrc' = c.rebindSrc
  /\ latch' = c.latch
  /\ shaking' = c.shaking
  /\ log' = c.log
  /\ hw' = c.hw
  /\ occupied' = c.occupied
  /\ lid' = c.lid
  /\ tips' = c.tips

\* ------------------------------------------------------ host API commands
Rack(n) == "tiprack" \o ToString(n)

\* protocol.load_labware of a tip rack: the rack it returns
NewRack(c) == Rack(c.nracks + 1)

\* places that take any number of labware: off the deck, the waste chute
Unbounded == {OFF_DECK, "chute"}

\* the labware other than `labware` that sits at `location`
Occupants(c, labware, location) ==
  IF location \in Unbounded THEN {}
  ELSE {x \in DOMAIN c.loc : x # labware /\ c.loc[x] = location}

\* the record of a load or move onto a place another labware holds
Collide(c, labware, location) ==
  IF Occupants(c, labware, location) # {}
  THEN c.occupied \cup {<<labware, location>>}
  ELSE c.occupied

load_labware(c, slot) ==
  [c EXCEPT !.loc = (NewRack(c) :> slot) @@ c.loc, !.nracks = @ + 1,
            !.occupied = Collide(c, NewRack(c), slot)]

\* protocol.load_labware / module.load_labware of a named plate
load_plate(c, plate, slot) ==
  [c EXCEPT !.loc = (plate :> slot) @@ c.loc,
            !.occupied = Collide(c, plate, slot)]

move_labware(c, labware, new_location) ==
  [c EXCEPT !.loc = [x \in DOMAIN c.loc |->
                       IF x = labware THEN new_location ELSE c.loc[x]],
            !.hw = @ + 1,
            !.occupied = Collide(c, labware, new_location)]

\* del protocol.deck[slot]
del_deck(c, slot) ==
  [c EXCEPT !.loc = [x \in {y \in DOMAIN c.loc : c.loc[y] # slot} |-> c.loc[x]]]

pick_up_tip(c, pipette, rack, col) ==
  [c EXCEPT !.hold[pipette] = <<rack, col>>, !.hw = @ + 1]

drop_tip(c, pipette) ==
  [c EXCEPT !.hold[pipette] = <<>>, !.hw = @ + 1]

Raise(c, msg) == [c EXCEPT !.raised = msg]

\* ----------------------------------------------------------- tip helpers
\* swap_labware leaving labware2 where it was
swap_labware_stay(c, labware1, labware2, EMPTYSLOT) ==
  move_labware(c, labware1, IF EMPTYSLOT # "" THEN EMPTYSLOT ELSE OFF_DECK)

swap_labware(c, labware1, labware2, EMPTYSLOT) ==
  LET labware1_pos == c.loc[labware1]
      labware2_pos == c.loc[labware2]
  IN  IF EMPTYSLOT # ""
      THEN move_labware(move_labware(move_labware(c, labware1, EMPTYSLOT),
                                     labware2, labware1_pos),
                        labware1, labware2_pos)
      ELSE move_labware(move_labware(move_labware(c, labware1, OFF_DECK),
                                     labware2, labware1_pos),
                        labware1, labware2_pos)

load_active_tips(c, tip_type, tip_rack) ==
  [c EXCEPT !.ACTIVE_TIPRACKS[tip_type].rack = tip_rack,
            !.TIPS_USED[tip_type] = 0]

load_backup_tips(c, tip_type, tip_rack) ==
  [c EXCEPT !.BACKUP_TIPRACKS[tip_type] = Append(@, tip_rack)]

Pop(s) == SubSeq(s, 1, Len(s) - 1)
Last(s) == s[Len(s)]

\* the record of one tip-box swap: c is the context the helper was called
\* in, d the context it left, val the value it returned
SwapRecord(c, d, fn, tip_type, val) ==
  LET old == c.ACTIVE_TIPRACKS[tip_type].rack
      new == d.ACTIVE_TIPRACKS[tip_type].rack
  IN  [fn |-> fn, val |-> val, tip |-> tip_type,
       old |-> old,
       oldloc |-> IF old = None THEN None ELSE c.loc[old],
       oldlocAfter |-> IF old = None THEN None ELSE d.loc[old],
       new |-> new,
       newloc |-> IF new = None THEN None ELSE d.loc[new],
       deckslot |-> d.ACTIVE_TIPRACKS[tip_type].deckslot,
       nbackup |-> Len(c.BACKUP_TIPRACKS[tip_type]),
       top |-> IF c.BACKUP_TIPRACKS[tip_type] = <<>> THEN None
               ELSE Last(c.BACKUP_TIPRACKS[tip_type]),
       nbackupAfter |-> Len(d.BACKUP_TIPRACKS[tip_type]),
       nracks |-> c.nracks,
       nracksAfter |-> d.nracks]

\* noShake: swap_tips.  The function has no return statement.
swap_tips(c, tip_type, new_slot) ==
  LET old_box == c.ACTIVE_TIPRACKS[tip_type].rack
      c1 == IF new_slot # None
            THEN [c EXCEPT !.ACTIVE_TIPRACKS[tip_type].deckslot = new_slot]
            ELSE c
      deckslot == c1.ACTIVE_TIPRACKS[tip_type].deckslot
      c2 == IF old_box = None
            THEN move_labware(load_labware(c1, OFF_DECK), NewRack(c1), deckslot)
            ELSE IF c1.BACKUP_TIPRACKS[tip_type] # <<>>
            THEN LET new_box == Last(c1.BACKUP_TIPRACKS[tip_type])
                     m == move_labware(c1, old_box, "A4")
                 IN  move_labware(
                       [m EXCEPT !.BACKUP_TIPRACKS[tip_type] = Pop(@)],
                       new_box, deckslot)
            ELSE move_labware(
                   move_labware(load_labware(c1, OFF_DECK), old_box, OFF_DECK),
                   NewRack(c1), deckslot)
      new_box == IF old_box # None /\ c1.BACKUP_TIPRACKS[tip_type] # <<>>
                 THEN Last(c1.BACKUP_TIPRACKS[tip_type])
                 ELSE NewRack(c1)
      c3 == [c2 EXCEPT !.ACTIVE_TIPRACKS[tip_type].rack = new_box]
  IN  [c3 EXCEPT !.lastSwap = SwapRecord(c, c3, "swap_tips", tip_type, None)]

\* shake, yeast: load_new_tips
load_new_tips(c, tip_type, EMPTYOFFDECKSLOT) ==
  LET old_box == c.ACTIVE_TIPRACKS[tip_type].rack
  IN  IF old_box = None
      THEN Raise(c, "AttributeError")      \* None has no attribute parent
      ELSE
      LET old_box_location == c.loc[old_box]
          c1 == IF c.BACKUP_TIPRACKS[tip_type] # <<>>
                THEN swap_labware(
                       [c EXCEPT !.BACKUP_TIPRACKS[tip_type] = Pop(@)],
                       old_box, Last(c.BACKUP_TIPRACKS[tip_type]),
                       EMPTYOFFDECKSLOT)
                ELSE move_labware(
                       move_labware(load_labware(c, OFF_DECK), old_box, OFF_DECK),
                       NewRack(c), old_box_location)
          new_box == IF c.BACKUP_TIPRACKS[tip_type] # <<>>
                     THEN Last(c.BACKUP_TIPRACKS[tip_type])
                     ELSE NewRack(c)
          c2 == load_active_tips(c1, tip_type, new_box)
      IN  [c2 EXCEPT !.lastSwap =
                       SwapRecord(c, c2, "load_new_tips", tip_type, None)]

EMPTYOFFDECKSLOT == "A4"

\* the file's own tip-box swap, as get_next_tip calls it
SwapBox(c, tip_type) ==
  IF c.proto = "noShake"
  THEN [swap_tips(c, tip_type, None) EXCEPT !.TIPS_USED[tip_type] = 0]
  ELSE load_new_tips(c, tip_type, EMPTYOFFDECKSLOT)

\* get_next_tip swapping one tip late (> instead of ==)
get_next_tip_late(c, pipette, tip_type) ==
  LET c1 == IF c.TIPS_USED[tip_type] > RackCols THEN SwapBox(c, tip_type) ELSE c
      tip_col == c1.TIPS_USED[tip_type] + 1
      rack == c1.ACTIVE_TIPRACKS[tip_type].rack
  IN  IF c1.raised # None THEN c1
      ELSE IF rack = None THEN Raise(c1, "TypeError")
      ELSE [pick_up_tip(c1, pipette, rack, tip_col)
              EXCEPT !.picked = @ \cup {<<rack, tip_col>>},
                     !.repick = @ \/ (<<rack, tip_col>> \in c1.picked),
                     !.lastPick = [rack |-> rack, col |-> tip_col,
                                   tip |-> tip_type],
                     !.TIPS_USED[tip_type] = @ + 1]

get_next_tip(c, pipette, tip_type) ==
  LET c1 == IF c.TIPS_USED[tip_type] = RackCols THEN SwapBox(c, tip_type) ELSE c
      tip_col == c1.TIPS_USED[tip_type] + 1
      rack == c1.ACTIVE_TIPRACKS[tip_type].rack
  IN  IF c1.raised # None THEN c1
      ELSE IF rack = None THEN Raise(c1, "TypeError")  \* None[tip_col]
      ELSE [pick_up_tip(c1, pipette, rack, tip_col)
              EXCEPT !.picked = @ \cup {<<rack, tip_col>>},
                     !.repick = @ \/ (<<rack, tip_col>> \in c1.picked),
                     !.lastPick = [rack |-> rack, col |-> tip_col,
                                   tip |-> tip_type],
                     !.TIPS_USED[tip_type] = @ + 1]

\* the command log is kept for Yeast_OPP_v1, whose run is short
Record(c, e) == IF c.proto = "yeast" THEN [c EXCEPT !.log = Append(@, e)] ELSE c

\* pipette.transfer(volume, source, dest, new_tip="never"); kind names
\* what is transferred, col the sample column it goes to or comes from
transfer(c, kind, col, volume) ==
  LET c1 == [c EXCEPT !.hw = @ + 1]
  IN  IF kind = "dnase" THEN [c1 EXCEPT !.dnase[col] = Append(@, volume)]
      ELSE Record(c1, <<kind, col, volume>>)

\* source shapes: "well", "column" (a list of wells), "columns" (a list
\* whose first element is a list)
SourceShapes == {"well", "column", "columns"}

\* transfer_tracktips checking the source only after taking the tip
transfer_tracktips_late(c, pipette, source, tip_type, kind, col, volume) ==
  LET call == [fn |-> "transfer_tracktips", source |-> source,
               hw |-> c.hw, used |-> c.TIPS_USED, hold |-> c.hold]
      c1 == get_next_tip([c EXCEPT !.lastCall = call], pipette, tip_type)
  IN  IF c1.raised # None THEN c1
      ELSE IF source = "columns"
      THEN Raise(c1, "Source is more than one column")
      ELSE drop_tip(transfer(c1, kind, col, volume), pipette)

transfer_tracktips(c, pipette, source, tip_type, kind, col, volume) ==
  LET call == [fn |-> "transfer_tracktips", source |-> source,
               hw |-> c.hw, used |-> c.TIPS_USED, hold |-> c.hold]
      c0 == [c EXCEPT !.lastCall = call]
  IN  IF source = "columns"
      THEN Raise(c0, "Source is more than one column")
      ELSE LET c1 == get_next_tip(c0, pipette, tip_type)
           IN  IF c1.raised # None THEN c1
               ELSE drop_tip(transfer(c1, kind, col, volume), pipette)

\* ------------------------------------------------- supernatant and waste

\* removeSup up to and including the waste-volume check: the aspirations,
\* the counter update and the pause.  The operator answers the pause
\* 'Please empty the waste' by emptying the reservoir before resuming.
removeSup_check(c, SUPVOL0) ==
  LET SUPVOL == IF SUPVOL0 < MinSup THEN MinSup ELSE SUPVOL0
      total  == c.WASTEVOL + SUPVOL * Channels
      c1 == [c EXCEPT !.hw = @ + 2, !.WASTEVOL = total,
                      !.tipvol = SUPVOL * Channels]
  IN  IF total > WasteLimit
      THEN [c1 EXCEPT !.wastePauses = @ + 1, !.reservoir = 0]
      ELSE c1

\* removeSup from the dispense into the waste reservoir to its end
removeSup_dispense(c) ==
  [c EXCEPT !.hw = @ + 1, !.reservoir = @ + c.tipvol, !.tipvol = 0]

\* ------------------------------------------------------------- modules
shaker_cmd(c, cmd) ==
  LET c1 == [c EXCEPT !.hw = @ + 1]
  IN  CASE cmd = "open_labware_latch"  -> [c1 EXCEPT !.latch = "open"]
        [] cmd = "close_labware_latch" -> [c1 EXCEPT !.latch = "closed"]
        [] cmd = "set_and_wait_for_shake_speed" -> [c1 EXCEPT !.shaking = TRUE]
        [] cmd = "deactivate_shaker"   -> [c1 EXCEPT !.shaking = FALSE]
        [] OTHER -> c1

\* ------------------------------------------------- statements of run()
Ins(op, a, b, c, d, e) == [op |-> op, a |-> a, b |-> b, c |-> c, d |-> d, e |-> e]

RECURSIVE Flatten(_)
Flatten(ss) == IF ss = <<>> THEN <<>> ELSE Head(ss) \o Flatten(Tail(ss))

\* for X in cols: Body(X)
ForEach(cols, Body(_)) == Flatten([k \in 1..Len(cols) |-> Body(cols[k])])

\* Python's seq[lo:hi] on a 0-based sequence
Slice(seq, lo, hi) ==
  LET h == IF hi > Len(seq) THEN Len(seq) ELSE hi
  IN  IF lo >= h THEN <<>> ELSE SubSeq(seq, lo + 1, h)

SAMPLECOLS(N) == [k \in 1..N |-> k]

Move(labware, to)  == <<Ins("move_labware", labware, to, 0, 0, 0)>>
Pause(msg)         == <<Ins("pause", msg, 0, 0, 0, 0)>>
\* protocol.delay: d in hundredths of a second; 0 = the call is skipped
Delay(d)           == IF d = 0 THEN <<>> ELSE <<Ins("delay", d, 0, 0, 0, 0)>>
Temp(cmd, t)       == <<Ins("temp_block", cmd, t, 0, 0, 0)>>
Shaker(cmd)        == <<Ins("shaker", cmd, 0, 0, 0, 0)>>
GetNextTip(pip, t) == <<Ins("get_next_tip", pip, t, 0, 0, 0)>>
DropTip(pip)       == <<Ins("drop_tip", pip, 0, 0, 0, 0)>>
PickUp(pip, rack, col) == <<Ins("pick_up_tip", pip, rack, col, 0, 0)>>
RemoveSup(col, vol) ==
  <<Ins("removeSup_check", col, vol, 0, 0, 0),
    Ins("removeSup_dispense", col, vol, 0, 0, 0)>>
TransferTrack(pip, source, t, kind, col, vol) ==
  <<Ins("transfer_tracktips", pip, source, t, kind, <<col, vol>>)>>
WashAdd(col, vol)  == <<Ins("wash_add", col, vol, 0, 0, 0)>>
RebindDispense(src, col) == <<Ins("rebind_dispense", src, col, 0, 0, 0)>>

Minutes(m) == m * 6000

\* the operator prompts of the two 'Spin plate' pauses
SpinTrizol ==
  "Spin plate at 500g for 1 minute to collect residual trizol. meanwhile, empty the trizol waste into the waste reservoir and rinse the waste container"
SpinBinding ==
  "Spin plate at 500g for 1 minute to collect residual binding buffer, check levels of waste reservoir, and refill ethanol plates"

\* a volume written in terms of the runtime parameters: their sum plus a
\* constant, evaluated against protocol.params when the statement runs
V(names, plus) == [names |-> names, plus |-> plus]

RECURSIVE SumParams(_, _)
SumParams(p, names) ==
  IF names = <<>> THEN 0 ELSE p[Head(names)] + SumParams(p, Tail(names))

Eval(p, v) == SumParams(p, v.names) + v.plus

\* ---- timing constants of the BombBio protocols, in minutes
DNASETIME  == 15
BINDTIME   == 10
SETTLETIME == 2
SHAKE_RPM  == 1300

\* wash_plate that moves the plate to the magnet before it adds the wash
wash_plate_on_magnet(file, DRY, SAMPLEPOS, COLS, WASHVOL) ==
  Move("SamplePlate", "mag_block")
  \o ForEach(COLS, LAMBDA X : WashAdd(X, V(<<WASHVOL>>, 0)))
  \o Delay(IF ~DRY THEN Minutes(2) ELSE IF file = "noShake" THEN 0 ELSE 60)
  \o ForEach(COLS, LAMBDA X : PickUp("p1000", "tip1000_reuse", X)
                              \o RemoveSup(X, V(<<WASHVOL>>, 25))
                              \o DropTip("p1000"))
  \o Move("SamplePlate", SAMPLEPOS)

\* wash_plate(SAMPLEPLATE, SAMPLEPOS, COLS, WASHVOL, ...): noShake skips the
\* settling delay in a dry run, shake shortens it to 0.01 min
wash_plate(file, DRY, SAMPLEPOS, COLS, WASHVOL) ==
  ForEach(COLS, LAMBDA X : WashAdd(X, V(<<WASHVOL>>, 0)))
  \o Move("SamplePlate", "mag_block")
  \o Delay(IF ~DRY THEN Minutes(2) ELSE IF file = "noShake" THEN 0 ELSE 60)
  \o ForEach(COLS, LAMBDA X : PickUp("p1000", "tip1000_reuse", X)
                              \o RemoveSup(X, V(<<WASHVOL>>, 25))
                              \o DropTip("p1000"))
  \o Move("SamplePlate", SAMPLEPOS)

\* binding_buffer_column as run() chooses it from N_SAMPLECOLS
binding_buffer_column(file, N) ==
  IF file = "noShake"
  THEN IF N <= 4 THEN <<3>> ELSE IF N <= 8 THEN <<3, 4>> ELSE <<3, 4, 5>>
  ELSE IF N <= 3 THEN <<3>> ELSE IF N <= 6 THEN <<3, 4>>
       ELSE IF N <= 9 THEN <<3, 4, 5>> ELSE <<3, 4, 5, 6>>

\* the sample columns binding-buffer column number i (0-based) serves
RebindCols(N, i) == Slice(SAMPLECOLS(N), i * 4, i * 4 + 3)

\* the rebind step: one tip, then per binding-buffer column its transfers
rebind_step(file, N) ==
  LET bb == binding_buffer_column(file, N)
  IN  GetNextTip("p1000", "tip1000")
      \o Flatten([k \in 1..Len(bb) |->
                   ForEach(RebindCols(N, k - 1),
                           LAMBDA Y : RebindDispense(bb[k], Y))])
      \o DropTip("p1000")

SupLoop(N, vol) ==
  ForEach(SAMPLECOLS(N), LAMBDA X : GetNextTip("p1000", "tip1000")
                                    \o RemoveSup(X, vol)
                                    \o DropTip("p1000"))


\* ---------------------------------------------- noShake: run, 376-523
noShake_run(N, DRY) ==
  LET COLS == SAMPLECOLS(N)
      Settle == Delay(IF DRY THEN 0 ELSE Minutes(SETTLETIME))
      Wash(vol) == wash_plate("noShake", DRY, "C2", COLS, vol)
  IN  Move("SamplePlate", "mag_block")
      \o Settle
      \o SupLoop(N, V(<<"INPUTVOLUME">>, 0))
      \o Move("SamplePlate", OFF_DECK)
      \o Pause(SpinTrizol)
      \o Move("SamplePlate", "C2")
      \o Wash("WASH1VOL") \o Wash("WASH2VOL") \o Wash("WASH2VOL")
      \o Temp("set_temperature", 50) \o Temp("await_temperature", 50)
      \o Move("SamplePlate", "temp_adapter")
      \o Delay(IF DRY THEN 0 ELSE Minutes(5))
      \o Temp("set_temperature", 37)
      \o (IF DRY THEN <<>> ELSE Temp("await_temperature", 37))
      \o ForEach(COLS, LAMBDA X :
           TransferTrack("p1000", "column", "tip1000", "dnase", X,
                         V(<<"DNASEVOL">>, 0)))
      \o Delay(IF DRY THEN 0 ELSE Minutes(DNASETIME))
      \o rebind_step("noShake", N)
      \o Move("SamplePlate", OFF_DECK)
      \o Pause("Shake for 10 minutes at 1300rpm")
      \o Move("SamplePlate", "mag_block")
      \o Settle
      \o SupLoop(N, V(<<"REBINDVOL">>, 0))
      \o Move("SamplePlate", OFF_DECK)
      \o Pause(SpinTrizol)
      \o Move("SamplePlate", "C2")
      \o Wash("WASH1VOL") \o Wash("WASH2VOL") \o Wash("WASH2VOL")
      \o ForEach(COLS, LAMBDA X : PickUp("p1000", "tip1000_reuse", X)
                                  \o DropTip("p1000"))
      \o Temp("set_temperature", 50)
      \o (IF DRY THEN <<>> ELSE Temp("await_temperature", 50))
      \o Move("SamplePlate", "temp_adapter")
      \o Delay(IF DRY THEN 0 ELSE Minutes(5))
      \o Move("SamplePlate", "C2")
      \o Move("tip1000_reuse", OFF_DECK)
      \o <<Ins("swap_tips", "tip50", "A3", 0, 0, 0)>>
      \o Move("Wash2Res", OFF_DECK)
      \o Move("ElutionPlate", "B2")
      \o ForEach(COLS, LAMBDA X :
           TransferTrack("p50", "column", "tip50", "elute_in", X,
                         V(<<"ELUTEVOL">>, 0)))
      \o Delay(IF DRY THEN 0 ELSE Minutes(5))
      \o Move("SamplePlate", "mag_block")
      \o Settle
      \o ForEach(COLS, LAMBDA X :
           TransferTrack("p50", "well", "tip50", "elute_out", X,
                         V(<<"ELUTEVOL">>, 0)))

\* ------------------------------------------------ shake: run, 527-619
\* shake that leaves the shaker running
shake_running(time, DRY, temp, wait_temp) ==
  Shaker("close_labware_latch")
  \o Shaker("set_and_wait_for_shake_speed")
  \o (IF wait_temp /\ temp # 0 THEN Shaker("set_and_wait_for_temperature")
      ELSE IF temp # 0 /\ ~wait_temp THEN Shaker("set_target_temperature")
      ELSE Shaker("deactivate_heater"))
  \o Delay(IF ~DRY THEN Minutes(time) ELSE 300)

\* shake(shaker, speed, time, dryrun, temp, wait_temp); temp 0 is ''
shake(time, DRY, temp, wait_temp) ==
  Shaker("close_labware_latch")
  \o Shaker("set_and_wait_for_shake_speed")
  \o (IF wait_temp /\ temp # 0 THEN Shaker("set_and_wait_for_temperature")
      ELSE IF temp # 0 /\ ~wait_temp THEN Shaker("set_target_temperature")
      ELSE Shaker("deactivate_heater"))
  \o Delay(IF ~DRY THEN Minutes(time) ELSE 300)
  \o Shaker("deactivate_shaker")

load_shaker(plate) == Move(plate, "shake_adapter") \o Shaker("close_labware_latch")

unload_shaker(plate, new_slot) == Shaker("open_labware_latch") \o Move(plate, new_slot)

\* remove_trizol that leaves the plate off the deck after the added sample
remove_trizol_offdeck(N, DRY, NBIND) ==
  SupLoop(N, V(<<"INPUTVOLUME">>, 25))
  \o Flatten([k \in 1..(NBIND - 1) |->
       Move("SamplePlate", OFF_DECK)
       \o Pause("Add more sample, mix for 10 minutes at 1300rpm")
       \o Delay(IF ~DRY THEN Minutes(SETTLETIME) ELSE 300)
       \o SupLoop(N, V(<<"INPUTVOLUME">>, 25))])

remove_trizol(N, DRY, NBIND) ==
  SupLoop(N, V(<<"INPUTVOLUME">>, 25))
  \o Flatten([k \in 1..(NBIND - 1) |->
       Move("SamplePlate", OFF_DECK)
       \o Pause("Add more sample, mix for 10 minutes at 1300rpm")
       \o Move("SamplePlate", "mag_block")
       \o Delay(IF ~DRY THEN Minutes(SETTLETIME) ELSE 300)
       \o SupLoop(N, V(<<"INPUTVOLUME">>, 25))])

dry_plate(DRY) ==
  (IF ~DRY THEN Temp("set_temperature", 50) \o Temp("await_temperature", 50)
   ELSE Temp("set_temperature", 25))
  \o Delay(IF ~DRY THEN Minutes(10) ELSE 300)
  \o Temp("set_temperature", 25)

elute(N, DRY) ==
  ForEach(SAMPLECOLS(N), LAMBDA X :
    TransferTrack("p50", "column", "tip50", "elute_in", X, V(<<"ELUTEVOL">>, 0)))
  \o shake(5, DRY, 0, TRUE)
  \o unload_shaker("SamplePlate", "mag_block")
  \o Delay(IF ~DRY THEN Minutes(SETTLETIME) ELSE 300)
  \o ForEach(SAMPLECOLS(N), LAMBDA X :
       TransferTrack("p50", "well", "tip50", "elute_out", X, V(<<"ELUTEVOL">>, 0)))

shake_run(N, DRY, NBIND, STARTSHAKE) ==
  LET COLS == SAMPLECOLS(N)
      Settle == Delay(IF ~DRY THEN Minutes(SETTLETIME) ELSE 300)
      Wash(vol) == wash_plate("shake", DRY, "temp_adapter", COLS, vol)
  IN  Temp("set_temperature", 25)
      \o Shaker("deactivate_heater")
      \o (IF STARTSHAKE THEN shake(BINDTIME, DRY, 0, TRUE) ELSE <<>>)
      \o unload_shaker("SamplePlate", "mag_block")
      \o Settle
      \o remove_trizol(N, DRY, NBIND)
      \o Move("SamplePlate", OFF_DECK)
      \o Pause(SpinTrizol)
      \o Move("SamplePlate", "temp_adapter")
      \o Wash("WASH1VOL") \o Wash("WASH2VOL") \o Wash("WASH2VOL") \o Wash("WASH2VOL")
      \o dry_plate(DRY)
      \o load_shaker("SamplePlate")
      \o ForEach(COLS, LAMBDA X :
           TransferTrack("p1000", "column", "tip1000", "dnase", X,
                         V(<<"DNASEVOL">>, 0)))
      \o shake(DNASETIME, DRY, 37, TRUE)
      \o Shaker("deactivate_heater")
      \o (IF N >= 8 THEN <<Ins("reload_tips", 0, 0, 0, 0, 0)>> ELSE <<>>)
      \o rebind_step("shake", N)
      \o shake(BINDTIME, DRY, 0, TRUE)
      \o unload_shaker("SamplePlate", "mag_block")
      \o Settle
      \o SupLoop(N, V(<<"REBINDVOL", "DNASEVOL">>, 25))
      \o Move("SamplePlate", OFF_DECK)
      \o Pause(SpinBinding)
      \o Move("SamplePlate", "temp_adapter")
      \o Wash("WASH1VOL") \o Wash("WASH2VOL") \o Wash("WASH2VOL") \o Wash("WASH2VOL")
      \o ForEach(COLS, LAMBDA X : PickUp("p1000", "tip1000_reuse", X)
                                  \o DropTip("p1000"))
      \o dry_plate(DRY)
      \o Shaker("deactivate_heater")
      \o load_shaker("SamplePlate")
      \o Temp("set_temperature", 4)
      \o <<Ins("swap_labware", "Wash2Res", "ElutionPlate", EMPTYOFFDECKSLOT, 0, 0)>>
      \o Move("ElutionPlate", "temp_adapter")
      \o <<Ins("swap_labware", "tip1000_reuse", "ACTIVE tip50", EMPTYOFFDECKSLOT, 0, 0)>>
      \o elute(N, DRY)
      \o Shaker("open_labware_latch")

\* ------------------------------------------------ yeast: run, 172-205
\* quench moving the sample to the cold plate before adding the reagent
quench_swapped(reagent_volume, sample_column, sample_volume) ==
  Shaker("deactivate_shaker")
  \o TransferTrack("p1000", "well", "tip1000", "quench_sample",
                   sample_column, V(<<>>, sample_volume))
  \o TransferTrack("p1000", "well", "tip1000", "quench_reagent",
                   sample_column, V(<<>>, reagent_volume))
  \o Shaker("set_and_wait_for_shake_speed")

quench(reagent_volume, sample_column, sample_volume) ==
  Shaker("deactivate_shaker")
  \o TransferTrack("p1000", "well", "tip1000", "quench_reagent",
                   sample_column, V(<<>>, reagent_volume))
  \o TransferTrack("p1000", "well", "tip1000", "quench_sample",
                   sample_column, V(<<>>, sample_volume))
  \o Shaker("set_and_wait_for_shake_speed")

yeast_run(DRY, USETEMP) ==
  Temp("set_temperature", IF ~DRY THEN 4 ELSE 25)
  \o (IF USETEMP THEN Shaker("set_and_wait_for_temperature") ELSE <<>>)
  \o Shaker("open_labware_latch")
  \o Pause("Resume at t=0")
  \o Shaker("close_labware_latch")
  \o Shaker("set_and_wait_for_shake_speed")
  \o Delay(IF ~DRY THEN 30000 ELSE 1)
  \o quench(100, 1, 1000) \o Delay(IF ~DRY THEN 29000 ELSE 1)
  \o quench(100, 2, 1000) \o Delay(IF ~DRY THEN 29000 ELSE 1)
  \o quench(100, 3, 1000) \o Delay(IF ~DRY THEN 29000 ELSE 1)
  \o quench(100, 4, 1000) \o Delay(IF ~DRY THEN 29000 ELSE 1)
  \o quench(100, 5, 1000) \o Delay(IF ~DRY THEN 29000 ELSE 1)
  \o quench(100, 6, 1000)
  \o Shaker("deactivate_shaker")
  \o Shaker("open_labware_latch")


\* ------------------------------------------------ UltraExpress P1..P4
\* Volumes are in tenths of a microlitre (fragmentation_vol_in is 6.5 uL).
UEFiles == {"P1", "P2", "P3", "P4"}

\* the "volume parameters" block of run(); over names the volume that a
\* configuration sets to 201 uL, "none" for the volumes as written.  P4
\* computes res_beads_vol and recon_buffer_vol from sample_vol and te_1_vol;
\* a configuration that names one of the two assigns it 201 uL instead
UEVolumes(file, over) ==
  LET v(name, dflt) == IF over = name THEN 2010 ELSE dflt
  IN  CASE file = "P1" ->
             [sample_vol |-> v("sample_vol", 500),
              dT25_beads_vol |-> v("dT25_beads_vol", 200),
              binding_buffer_vol |-> v("binding_buffer_vol", 500),
              tris_and_binding_mm_vol |-> v("tris_and_binding_mm_vol", 1000),
              wash_buffer_vol |-> v("wash_buffer_vol", 2000),
              fragmentation_vol_in |-> v("fragmentation_vol_in", 65),
              fragmentation_vol_out |-> v("fragmentation_vol_out", 50)]
        [] file = "P2" ->
             [sample_vol |-> v("sample_vol", 50),
              first_strand_mm_vol |-> v("first_strand_mm_vol", 50),
              second_strand_mm_vol |-> v("second_strand_mm_vol", 300),
              beads_vol |-> v("beads_vol", 720),
              ethanol_vol |-> v("ethanol_vol", 2000),
              te_in |-> v("te_in", 220),
              te_out |-> v("te_out", 200)]
        [] file = "P3" ->
             [sample_vol |-> v("sample_vol", 200),
              end_prep_mm_vol |-> v("end_prep_mm_vol", 40),
              diluted_adapter_vol |-> v("diluted_adapter_vol", 20),
              ligation_mm_vol |-> v("ligation_mm_vol", 120),
              user_ez_vol |-> v("user_ez_vol", 20),
              mstc_primer_mm_vol |-> v("mstc_primer_mm_vol", 600)]
        [] file = "P4" ->
             [sample_vol |-> v("sample_vol", 1000),
              res_beads_vol |-> v("res_beads_vol",
                                  (7 * v("sample_vol", 1000)) \div 10),
              te_1_vol |-> v("te_1_vol", 500),
              recon_buffer_vol |-> v("recon_buffer_vol",
                                     (8 * v("te_1_vol", 500)) \div 10),
              ethanol_vol |-> v("ethanol_vol", 2000),
              te_2_in_vol |-> v("te_2_in_vol", 230),
              te_2_out_vol |-> v("te_2_out_vol", 200)]

\* the volumes run() compares with 200 uL in its error handling
CheckedVolumes(file) ==
  CASE file = "P1" -> {"dT25_beads_vol", "binding_buffer_vol",
                       "tris_and_binding_mm_vol", "wash_buffer_vol",
                       "fragmentation_vol_in", "fragmentation_vol_out"}
    [] file = "P2" -> {"sample_vol", "first_strand_mm_vol",
                       "second_strand_mm_vol", "beads_vol", "ethanol_vol",
                       "te_in", "te_out"}
    [] file = "P3" -> {"sample_vol", "end_prep_mm_vol", "diluted_adapter_vol",
                       "ligation_mm_vol", "user_ez_vol", "mstc_primer_mm_vol"}
    [] file = "P4" -> {"sample_vol", "res_beads_vol", "te_1_vol",
                       "recon_buffer_vol", "ethanol_vol", "te_2_in_vol",
                       "te_2_out_vol"}

\* ue_validate without the lower bound on num_samples
ue_validate_upper(c, file, num_samples, vols) ==
  IF num_samples > UEMaxSamples
  THEN Raise(c, "The number of samples should be between 1 and 96")
  ELSE IF \E name \in CheckedVolumes(file) : vols[name] > UEMaxVol * 10
  THEN Raise(c, "The volume should be equal to or less than 200 uL")
  ELSE c

\* run(): "Error Handling", the first statements of run()
ue_validate(c, file, num_samples, vols) ==
  IF num_samples > UEMaxSamples \/ num_samples < 1
  THEN Raise(c, "The number of samples should be between 1 and 96")
  ELSE IF \E name \in CheckedVolumes(file) : vols[name] > UEMaxVol * 10
  THEN Raise(c, "The volume should be equal to or less than 200 uL")
  ELSE c

\* cols = math.ceil(num_samples / 8)
ue_cols(num_samples) == (num_samples + 7) \div 8

\* remove(): the modes its first statement lets through
AcceptedModes(file) ==
  IF file = "P1"
  THEN {"beads_supernatant", "binding_buffer", "washing_buffer_1",
        "tris_binding_mm", "washing_buffer_2", "elution"}
  ELSE {"beads_supernatant", "ethanol", "elution"}

\* remove(): the branch of its if/elif chain that would handle the mode
RemoveBranch(file, rmode) ==
  IF rmode = "elution" THEN "elution"
  ELSE IF rmode = "ethanol" THEN "ethanol"
  ELSE IF rmode = "beads_supernatant" THEN "beads_supernatant"
  ELSE IF file = "P1" THEN "else" ELSE "none"

\* remove(): pipette and aspiration volume chosen from re_vol
RemovePlan(file, re_vol) ==
  LET hi == IF file = "P4" THEN 1800 ELSE 1500
      lo == IF file = "P1" THEN 200 ELSE 500
  IN  IF hi < re_vol /\ re_vol <= 2000
      THEN [pip |-> "p1000m", asp_vol |-> re_vol - 500, pre |-> 500]
      ELSE IF lo <= re_vol /\ re_vol <= hi
      THEN [pip |-> "p1000m", asp_vol |-> re_vol, pre |-> 0]
      ELSE [pip |-> "p50m", asp_vol |-> re_vol, pre |-> 0]

\* cols_m, cols_s of run(): the full columns and the wells of a partial one
\* (0 stands for None)
ue_cols_m(num_samples) ==
  IF num_samples % 8 = 0 THEN ue_cols(num_samples)
  ELSE IF ue_cols(num_samples) = 1 THEN 0 ELSE ue_cols(num_samples) - 1

ue_cols_s(num_samples) ==
  IF num_samples % 8 = 0 THEN 0
  ELSE IF ue_cols(num_samples) = 1 THEN num_samples ELSE num_samples % 8

\* math.ceil(a / b)
Ceil(a, b) == (a + b - 1) \div b

\* the pipette whose racks rotate through the expansion slots
Rotating(file) == IF file = "P3" THEN "p50m" ELSE "p1000m"

OtherPip(pip) == IF pip = "p50m" THEN "p1000m" ELSE "p50m"

\* run(): "Tips handling calculation and loading".  slots, extra, empty and
\* expansion are slots_200, slots_200_extra, slots_empty_expansion and
\* expansion_slots (slots_50.. in P3); fixed are the slots of the other
\* pipette's racks and offdeck the number of its racks loaded OFF_DECK
TipPlan(file, cols) ==
  LET num_50 == CASE file = "P1" -> IF cols * 2 > 12 THEN 2 ELSE 1
                  [] file = "P2" -> IF Ceil(4 * cols, 12) >= 2
                                    THEN Ceil(4 * cols, 12) ELSE 1
                  [] file = "P3" -> Ceil(4 * cols, 12)
                  [] file = "P4" -> IF Ceil(2 * cols, 12) >= 2
                                    THEN Ceil(2 * cols, 12) ELSE 1
      regular == CASE file = "P1" -> IF num_50 >= 2 THEN <<"B2", "B3", "C3">>
                                     ELSE <<"B2", "B3", "C3", "A3">>
                   [] file = "P2" -> IF num_50 >= 2 THEN <<"D2", "A2", "A3">>
                                     ELSE <<"D2", "A2", "A3", "B3">>
                   [] file = "P3" -> <<"A2", "A3">>
                   [] file = "P4" -> IF num_50 >= 2
                                     THEN <<"A2", "B2", "B3", "A3">>
                                     ELSE <<"A2", "B2", "B3", "A3", "D2">>
      expansion == IF file \in {"P3", "P4"} THEN <<"A4", "B4", "C4", "D4">>
                   ELSE <<"A4", "B4", "C4">>
      required_cols == CASE file = "P1" -> 3 + (cols + 1) + (cols + cols)
                                           + (1 + cols) + (cols + cols)
                                           + (1 + cols)
                         [] file = "P2" -> (cols + cols) + (1 + cols) + (1 + cols)
                         [] file = "P3" -> cols + (cols + cols) + cols
                         [] file = "P4" -> (cols + cols) + (cols + cols + cols)
                                           + (1 + cols) + (1 + cols)
      required_slots_num == Ceil(required_cols, 12)
      difference == required_slots_num - Len(regular)
  IN  [slots |-> IF difference <= 0 THEN Slice(regular, 0, required_slots_num)
                 ELSE regular,
       extra |-> IF difference <= 0 THEN <<>>
                 ELSE Slice(expansion, 0, difference),
       empty |-> IF difference <= 0
                 THEN IF file = "P3" THEN expansion ELSE <<>>
                 ELSE Slice(expansion, difference, Len(expansion)),
       expansion |-> expansion,
       fixed |-> CASE file = "P1" -> IF num_50 >= 2 THEN <<"A2", "A3">>
                                     ELSE <<"A2">>
                   [] file = "P2" -> IF num_50 >= 2 THEN <<"B2", "B3">>
                                     ELSE <<"B2">>
                   [] file = "P3" -> <<"D2">>
                   [] file = "P4" -> IF num_50 >= 2 THEN <<"C3", "D2">>
                                     ELSE <<"C3">>,
       offdeck |-> IF file \in {"P2", "P4"} /\ num_50 >= 2 THEN num_50 - 2
                   ELSE 0,
       required_slots_num_200 |-> IF file = "P3" THEN Ceil(cols, 12)
                                  ELSE required_slots_num,
       required_slots_num_50 |-> num_50]

\* [protocol.load_labware(tiprack, slot) for slot in slots]
RECURSIVE load_racks(_, _)
load_racks(c, slots) ==
  IF slots = <<>> THEN c
  ELSE load_racks(load_labware(c, Head(slots)), Tail(slots))

\* the list that comprehension evaluates to when run in context c
RackList(c, slots) == [k \in 1..Len(slots) |-> Rack(c.nracks + k)]

\* for a in slots: del protocol.deck[a]
RECURSIVE del_slots(_, _)
del_slots(c, slots) ==
  IF slots = <<>> THEN c ELSE del_slots(del_deck(c, Head(slots)), Tail(slots))

\* the plates and reservoirs run() loads, in the order it loads them
UEPlates(file) ==
  CASE file = "P1" -> <<<<"reagent_plate", "temp_adapter">>,
                        <<"sample_plate", "thermocycler">>,
                        <<"mag_prep_plate", "C2">>,
                        <<"final_plate", "D4">>,
                        <<"waste_res", "D2">>>>
    [] file = "P2" -> <<<<"reagent_plate", "temp_adapter">>,
                        <<"sample_plate", "thermocycler">>,
                        <<"reagent_plate_rt", "C3">>,
                        <<"final_plate", "D4">>>>
    [] file = "P3" -> <<<<"reagent_plate", "temp_adapter">>,
                        <<"sample_plate", "thermocycler">>,
                        <<"index_plate", "C2">>>>
    [] file = "P4" -> <<<<"reagent_plate", "C2">>,
                        <<"sample_plate", "temp_adapter">>,
                        <<"final_plate", "thermocycler">>>>

RECURSIVE load_plates(_, _)
load_plates(c, plates) ==
  IF plates = <<>> THEN c
  ELSE load_plates(load_plate(c, Head(plates)[1], Head(plates)[2]),
                   Tail(plates))

\* transition_slot of run()
transition_slot(file) ==
  CASE file = "P3" -> "mag_block"
    [] file = "P4" -> "temp_adapter"
    [] OTHER -> "C2"

\* run() from the tip racks to the labware: the racks of both pipettes, the
\* thermocycler lid, the plates, tip_count_* = 0 and tiporder_*
load_deck(c, file, plan) ==
  LET fixed == plan.fixed \o [k \in 1..plan.offdeck |-> OFF_DECK]
      c1 == load_racks(c, IF file = "P3" THEN <<>> ELSE fixed)
      c2 == load_racks(c1, plan.slots)
      c3 == load_racks(c2, plan.extra)
      c4 == load_racks(c3, IF file = "P3" THEN fixed ELSE <<>>)
      c5 == [c4 EXCEPT !.lid = IF file = "P4" THEN "closed" ELSE "open",
                       !.hw = @ + 1]
      c6 == load_plates(c5, UEPlates(file))
  IN  [c6 EXCEPT !.tips =
         [count |-> [p50m |-> 0, p1000m |-> 0],
          order |-> (Rotating(file) :> RackCols * Len(plan.slots))
                    @@ (OtherPip(Rotating(file)) :> RackCols * Len(plan.fixed)),
          racks |-> RackList(c1, plan.slots),
          extra |-> RackList(c2, plan.extra)]]

ue_setup(c, file, cols) == load_deck(c, file, TipPlan(file, cols))

\* pipette.pick_up_tip(tiporder[tip_count]); tip_count += 1: an index past
\* the end of tiporder raises IndexError before any command
take_tip(c, pip) ==
  IF c.tips.count[pip] >= c.tips.order[pip]
  THEN Raise(c, "IndexError")             \* tiporder[tip_count]
  ELSE [c EXCEPT !.tips.count[pip] = @ + 1, !.hw = @ + 1]

\* the "move in" loop of pick_up_200, from b (1-based) to the last extra rack
RECURSIVE move_in(_, _, _)
move_in(c, plan, b) ==
  IF b > Len(plan.extra) THEN c
  ELSE LET c1 == move_labware(c, c.tips.extra[b], plan.slots[b])
           c2 == IF b + 1 <= Len(plan.extra)
                 THEN move_labware(c1, c.tips.racks[b + 1], plan.extra[b])
                 ELSE c1
       IN  move_in(c2, plan, b + 1)

\* rotate_racks whose rotation leaves the first empty rack in its slot
rotate_racks_stay(c, pip, plan) ==
  LET t == c.tips
  IN  IF t.count[pip] # t.order[pip] THEN take_tip(c, pip)
      ELSE take_tip([move_in(c, plan, 1)
                       EXCEPT !.tips.order[pip] = RackCols * Len(t.extra),
                              !.tips.extra = <<>>,
                              !.tips.count[pip] = 0], pip)

\* the body of pick_up_200 of P1, P2 and P4 and of pick_up_50 of P3, with
\* the tip plan of run(): when the tips in tiporder are used up, either the
\* operator replaces every rack (no extra racks left) or the gripper
\* rotates the extra racks in
rotate_racks(c, pip, plan) ==
  LET t == c.tips
  IN  IF t.count[pip] # t.order[pip] THEN take_tip(c, pip)
      ELSE IF t.extra = <<>>
      THEN LET c1 == del_slots(del_slots(c, plan.slots), plan.expansion)
               c2 == load_racks(c1, plan.slots)
               c3 == load_racks(c2, plan.extra)
           IN  take_tip([c3 EXCEPT !.tips.racks = RackList(c1, plan.slots),
                                   !.tips.order[pip] = RackCols * Len(plan.slots),
                                   !.tips.extra = RackList(c2, plan.extra),
                                   !.tips.count[pip] = 0], pip)
      ELSE IF Len(t.extra) # (IF c.proto = "P4" THEN 4 ELSE 3) /\ plan.empty = <<>>
      THEN Raise(c, "IndexError")         \* slots_empty_expansion[0]
      ELSE LET c1 == move_labware(c, t.racks[1],
                                  IF Len(t.extra) = (IF c.proto = "P4" THEN 4 ELSE 3)
                                  THEN "chute" ELSE plan.empty[1])
           IN  take_tip([move_in(c1, plan, 1)
                           EXCEPT !.tips.order[pip] = RackCols * Len(t.extra),
                                  !.tips.extra = <<>>,
                                  !.tips.count[pip] = 0], pip)

pick_up_rotate(c, pip) ==
  rotate_racks(c, pip, TipPlan(c.proto, ue_cols(c.params.num_samples)))

\* pick_up_50 of P1, P2 and P4, pick_up_200 of P3: when the tips are used
\* up the operator refills the racks where they stand
pick_up_reset(c, pip) ==
  take_tip(IF c.tips.count[pip] = c.tips.order[pip]
           THEN [c EXCEPT !.tips.count[pip] = 0] ELSE c, pip)

pick_up_200(c) ==
  IF Rotating(c.proto) = "p1000m" THEN pick_up_rotate(c, "p1000m")
  ELSE pick_up_reset(c, "p1000m")

pick_up_50(c) ==
  IF Rotating(c.proto) = "p50m" THEN pick_up_rotate(c, "p50m")
  ELSE pick_up_reset(c, "p50m")

\* n calls of pick_up_200 / pick_up_50, each followed by the pipetting of
\* one column and tip_disposal
RECURSIVE pick_ups(_, _, _)
\* the pipetting and tip_disposal after the pick-up left c1, then the
\* columns that remain; a pick-up that raised ends the call
pipette_column(c1, pip, n) ==
  IF c1.raised # None THEN c1
  ELSE pick_ups([c1 EXCEPT !.hw = @ + 2], pip, n - 1)

pick_ups(c, pip, n) ==
  IF n = 0 \/ c.raised # None THEN c
  ELSE pipette_column(IF pip = "p1000m" THEN pick_up_200(c)
                      ELSE pick_up_50(c), pip, n)

\* well_to_list(pip, well, dest_list, ..., change_tip): dest_list has n
\* columns; with change_tip every column takes a new tip
well_to_list(c, pip, n, change_tip) ==
  IF change_tip THEN pick_ups(c, pip, n) ELSE [c EXCEPT !.hw = @ + 2 * n]

\* column_index of mm_prep (P2, P3): tip_count_50 % 12 when tip_count_50 > 12,
\* else the counter itself; P3's p1000m branch always takes tip_count_200
column_index(count, pip) ==
  IF pip = "p50m" /\ count > RackCols THEN count % RackCols ELSE count

\* the "if cols_s:" part of dt25_beads_prep (P1) and mm_prep (P2, P3): single
\* tips taken from one column of a rack, then tip_count += 1.  P1 takes
\* tips200[0].columns()[1]; P2 and P3 take
\* tiporder[tip_count].parent.columns()[column_index], an IndexError when
\* either index is past the end
partial_column(c, pip) ==
  IF c.proto # "P1"
     /\ (c.tips.count[pip] >= c.tips.order[pip]
         \/ column_index(c.tips.count[pip], pip) >= RackCols)
  THEN Raise(c, "IndexError")
  ELSE [c EXCEPT !.tips.count[pip] = @ + 1, !.hw = @ + 1]

\* thermocycler.open_lid / close_lid
lid_cmd(c, cmd) ==
  [c EXCEPT !.lid = IF cmd = "open_lid" THEN "open" ELSE "closed", !.hw = @ + 1]

\* remove(re_vol, re_s_list, mode, b2slots, change_tip): re_s_list is ncols
\* columns of plate; P1 alone has b2slots (False elsewhere)
\* remove() after its tips were picked up (c1): the pipetting of the
\* columns and the b2slots move
remove_columns(c1, file, plan, ncols, plate, b2slots, change_tip) ==
  IF c1.raised # None THEN c1
  ELSE IF ~b2slots
  THEN [c1 EXCEPT !.hw = @ + ncols * (IF plan.pre > 0 THEN 2 ELSE 0)
                           + (IF change_tip \/ ncols = 0 THEN 0
                              ELSE 2 * (ncols - 1))]
  ELSE IF ncols = 0 THEN Raise(c1, "IndexError")      \* re_s_list[0]
  ELSE move_labware(
         [c1 EXCEPT !.hw = @ + ncols * (IF plan.pre > 0 THEN 2 ELSE 0)
                           + (IF change_tip \/ ncols = 0 THEN 0
                              ELSE 2 * (ncols - 1))],
         plate, transition_slot(file))

\* the tips remove() picks up: one per column, or one for all of them
remove_tips(c0, file, plan, ncols, plate, b2slots, change_tip) ==
  remove_columns(pick_ups(c0, plan.pip,
                          IF ncols = 0 THEN 0
                          ELSE IF change_tip THEN ncols ELSE 1),
                 file, plan, ncols, plate, b2slots, change_tip)

remove(c, file, re_vol, rmode, ncols, plate, b2slots, change_tip) ==
  LET call == [fn |-> "remove", mode |-> rmode, re_vol |-> re_vol,
               hw |-> c.hw, plate |-> plate,
               at |-> IF plate \in DOMAIN c.loc THEN c.loc[plate] ELSE None]
      c0 == [c EXCEPT !.lastCall = call]
  IN  IF rmode \notin AcceptedModes(file)
      THEN Raise(c0, "A wrong mode is used")
      ELSE IF ncols >= 1 /\ re_vol > UEMaxVol * 10
      THEN Raise(c0, "A wrong volume is used")
      ELSE remove_tips(c0, file, RemovePlan(file, re_vol), ncols, plate,
                       b2slots, change_tip)

\* ---- statements of the UltraExpress run()
UEPickUp(pip) == <<Ins("ue_pick_up", pip, 0, 0, 0, 0)>>
WellToList(pip, src, dst, n, change_tip) ==
  <<Ins("well_to_list", pip, src, dst, n, change_tip)>>
PartialColumn(pip, src, dst) == <<Ins("partial_column", pip, src, dst, 0, 0)>>
CustomDelay(name) == <<Ins("custom_delay", name, 0, 0, 0, 0)>>
Lid(cmd) == <<Ins("lid", cmd, 0, 0, 0, 0)>>
\* thermocycler.set_block_temperature(t, hold_time_minutes = ...): time is
\* the hold in seconds
TcHold(t, time) == <<Ins("tc_hold", t, time, 0, 0, 0)>>
\* thermocycler.set_block_temperature(t), no hold
TcSet(t) == <<Ins("tc_set", t, 0, 0, 0, 0)>>
TcProfile == <<Ins("tc_profile", 0, 0, 0, 0, 0)>>
\* pause_attention("Please replace the ... tips"); tip_count = 0
TipReset(pip) == <<Ins("tip_reset", pip, 0, 0, 0, 0)>>
UERemove(vol, rmode, plate, b2slots, change_tip) ==
  <<Ins("ue_remove", vol, rmode, plate, b2slots, change_tip)>>

\* tc_steps that leaves the lid closed after the incubation
tc_steps_shut(file, DRY, plan, holds, h_temp, custom_message) ==
  Lid("close_lid")
  \o (IF ~DRY
      THEN Flatten([k \in 1..Len(holds) |->
                      TcHold(holds[k][1], holds[k][2] * 60)])
           \o TcSet(h_temp)
           \o (IF file = "P1" /\ custom_message
                  /\ plan.required_slots_num_200 >= 7
               THEN TipReset("p1000m")
               ELSE IF file = "P2" /\ custom_message
                       /\ plan.required_slots_num_50 > 2
               THEN TipReset("p50m")
               ELSE <<>>)
      ELSE CustomDelay("Dry run delay"))
  \o (IF file = "P1"
      THEN Move("sample_plate", "mag_block")
           \o CustomDelay("after thermocycler incubation")
      ELSE <<>>)

\* tc_steps(..., t1, time1, t2, time2, t3, time3, h_temp, custom_message):
\* holds lists the <<temperature, minutes>> pairs that are set.  The lid
\* heater (set_lid_temperature, deactivate_lid) is left out.
tc_steps(file, DRY, plan, holds, h_temp, custom_message) ==
  Lid("close_lid")
  \o (IF ~DRY
      THEN Flatten([k \in 1..Len(holds) |->
                      TcHold(holds[k][1], holds[k][2] * 60)])
           \o TcSet(h_temp)
           \o (IF file = "P1" /\ custom_message
                  /\ plan.required_slots_num_200 >= 7
               THEN TipReset("p1000m")
               ELSE IF file = "P2" /\ custom_message
                       /\ plan.required_slots_num_50 > 2
               THEN TipReset("p50m")
               ELSE <<>>)
      ELSE CustomDelay("Dry run delay"))
  \o Lid("open_lid")
  \o (IF file = "P1"
      THEN Move("sample_plate", "mag_block")
           \o CustomDelay("after thermocycler incubation")
      ELSE <<>>)

\* P3: tc_profile
tc_profile ==
  Lid("close_lid") \o TcHold(98, 30) \o TcProfile \o TcHold(65, 300)
  \o TcSet(4)

\* P1: dt25_beads_prep
dt25_beads_prep(cols_m, cols_s) ==
  UEPickUp("p1000m")
  \o WellToList("p1000m", "reagent_plate", "mag_prep_plate", cols_m, FALSE)
  \o (IF cols_s # 0
      THEN PartialColumn("p1000m", "reagent_plate", "mag_prep_plate")
      ELSE <<>>)
  \o Move("mag_prep_plate", "mag_block")
  \o CustomDelay("dT25 Beads incubation")

\* P1: binding_buffer_addition_to_tc
binding_buffer_addition_to_tc(cols) ==
  Flatten([j \in 1..cols |->
             UEPickUp("p1000m")
             \o WellToList("p1000m", "reagent_plate", "mag_prep_plate", 1, FALSE)
             \o WellToList("p1000m", "mag_prep_plate", "sample_plate", 1, FALSE)])
  \o Move("mag_prep_plate", "chute")

\* P2, P3: mm_prep
mm_prep(cols_m, cols_s) ==
  WellToList("p50m", "reagent_plate", "sample_plate", cols_m, TRUE)
  \o (IF cols_s # 0
      THEN PartialColumn("p50m", "reagent_plate", "sample_plate")
      ELSE <<>>)

\* wash(wash_vol, wash_s_list, addition_change_tip = False, plate_move):
\* the wash is added with one tip, to the first eight columns and then to
\* the others, and removed with a tip per column
wash(file, wash_vol, cols, plate_move) ==
  LET src == IF file = "P2" THEN "reagent_plate_rt" ELSE "reagent_plate"
      n1 == IF cols > 8 THEN 8 ELSE cols
  IN  UEPickUp("p1000m")
      \o WellToList("p1000m", src, "sample_plate", n1, FALSE)
      \o (IF file = "P4" /\ cols <= 8 THEN <<>>
          ELSE WellToList("p1000m", src, "sample_plate", cols - n1, FALSE))
      \o (IF file = "P1" THEN <<>>
          ELSE CustomDelay("Ethanol Wash Incubation"))
      \o UERemove(wash_vol,
                  IF file # "P1" THEN "ethanol"
                  ELSE IF plate_move THEN "washing_buffer_2"
                  ELSE "washing_buffer_1",
                  "sample_plate", plate_move, TRUE)

\* elution(volume_in, volume_out)
elution(file, DRY, plan, cols, volume_out) ==
  CASE file = "P1" ->
         WellToList("p50m", "reagent_plate", "sample_plate", cols, TRUE)
         \o Move("sample_plate", "thermocycler")
         \o tc_steps("P1", DRY, plan, <<<<94, 15>>>>, 4, FALSE)
         \o Move("final_plate", "thermocycler")
         \o UERemove(volume_out, "elution", "sample_plate", FALSE, TRUE)
         \o Lid("close_lid")
    [] file = "P2" ->
         WellToList("p50m", "reagent_plate_rt", "sample_plate", cols, TRUE)
         \o TcSet(4)
         \o Move("final_plate", "thermocycler")
         \o CustomDelay("Elution Incubation")
         \o Move("sample_plate", "mag_block")
         \o CustomDelay("Elution Binding")
         \o UERemove(volume_out, "elution", "sample_plate", FALSE, TRUE)
         \o Lid("close_lid")
    [] file = "P4" ->
         WellToList("p50m", "reagent_plate", "sample_plate", cols, TRUE)
         \o CustomDelay("Elution Incubation")
         \o Move("sample_plate", "mag_block")
         \o CustomDelay("Elution Binding")
         \o Lid("open_lid")
         \o UERemove(volume_out, "elution", "sample_plate", FALSE, TRUE)
         \o Lid("close_lid")

\* run(): error handling, deck set-up, then "protocol starts here", with
\* the column counts and the tip plan run() has computed by then
ue_statements(file, vols, cols, cols_m, cols_s, plan, DRY) ==
  <<Ins("ue_validate", 0, 0, 0, 0, 0), Ins("ue_setup", 0, 0, 0, 0, 0)>>
  \o (CASE file = "P1" ->
             dt25_beads_prep(cols_m, cols_s)
             \o UERemove(vols.dT25_beads_vol, "beads_supernatant",
                         "mag_prep_plate", TRUE, FALSE)
             \o WellToList("p1000m", "reagent_plate", "mag_prep_plate", cols, TRUE)
             \o Move("mag_prep_plate", "mag_block")
             \o CustomDelay("1st Binding Buffer Binding")
             \o UERemove(vols.binding_buffer_vol, "binding_buffer",
                         "mag_prep_plate", TRUE, FALSE)
             \o binding_buffer_addition_to_tc(cols)
             \o tc_steps("P1", DRY, plan, <<<<80, 2>>, <<25, 5>>>>, 25, TRUE)
             \o UERemove(vols.binding_buffer_vol + vols.sample_vol,
                         "binding_buffer", "sample_plate", FALSE, TRUE)
             \o wash("P1", vols.wash_buffer_vol, cols, FALSE)
             \o Move("sample_plate", transition_slot("P1"))
             \o WellToList("p1000m", "reagent_plate", "sample_plate", cols, TRUE)
             \o Move("sample_plate", "thermocycler")
             \o tc_steps("P1", DRY, plan, <<<<80, 2>>, <<25, 5>>>>, 25, FALSE)
             \o TcSet(4)
             \o UERemove(vols.tris_and_binding_mm_vol, "tris_binding_mm",
                         "sample_plate", FALSE, TRUE)
             \o wash("P1", vols.wash_buffer_vol, cols, TRUE)
             \o elution("P1", DRY, plan, cols, vols.fragmentation_vol_out)
             \o Move("sample_plate", "D4")
             \o Pause("The Part 1 protocol has been completed.")
        [] file = "P2" ->
             mm_prep(cols_m, cols_s)
             \o tc_steps("P2", DRY, plan, <<<<25, 10>>, <<42, 10>>, <<70, 5>>>>,
                         4, FALSE)
             \o mm_prep(cols_m, cols_s)
             \o tc_steps("P2", DRY, plan, <<<<16, 30>>>>, 4, TRUE)
             \o Move("sample_plate", transition_slot("P2"))
             \o CustomDelay("after thermocycler incubation")
             \o WellToList("p1000m", "reagent_plate_rt", "sample_plate", cols, TRUE)
             \o CustomDelay("Ampure XP beads incubation")
             \o Move("sample_plate", "mag_block")
             \o CustomDelay("Ampure XP beads binding")
             \o UERemove(vols.beads_vol + vols.sample_vol + vols.first_strand_mm_vol
                         + vols.second_strand_mm_vol, "beads_supernatant",
                         "sample_plate", FALSE, TRUE)
             \o wash("P2", vols.ethanol_vol, cols, FALSE)
             \o wash("P2", vols.ethanol_vol, cols, FALSE)
             \o CustomDelay("air dry")
             \o Move("sample_plate", transition_slot("P2"))
             \o elution("P2", DRY, plan, cols, vols.te_out)
             \o Pause("The Part 2 protocol has been completed.")
             \o Move("sample_plate", "D4")
             \o Lid("open_lid")
             \o Move("final_plate", transition_slot("P2"))
             \o Lid("close_lid")
        [] file = "P3" ->
             mm_prep(cols_m, cols_s)
             \o tc_steps("P3", DRY, plan, <<<<20, 5>>, <<65, 10>>>>, 4, FALSE)
             \o mm_prep(cols_m, cols_s)
             \o mm_prep(cols_m, cols_s)
             \o tc_steps("P3", DRY, plan, <<<<20, 15>>>>, 4, FALSE)
             \o mm_prep(cols_m, cols_s)
             \o tc_steps("P3", DRY, plan, <<<<37, 5>>>>, 4, FALSE)
             \o Pause("Freshly make 66 uL in each well of the index plate")
             \o Move("reagent_plate", OFF_DECK)
             \o Move("index_plate", "temp_adapter")
             \o WellToList("p1000m", "index_plate", "sample_plate", cols, TRUE)
             \o (IF ~DRY THEN tc_profile ELSE Lid("close_lid"))
             \o Pause("The protocol has been completed.")
             \o Lid("open_lid")
             \o Move("sample_plate", transition_slot("P3"))
        [] file = "P4" ->
             WellToList("p1000m", "reagent_plate", "sample_plate", cols, TRUE)
             \o CustomDelay("Resuspension Beads Incubation")
             \o Move("sample_plate", "mag_block")
             \o CustomDelay("Resuspension Beads Binding")
             \o UERemove(vols.res_beads_vol + vols.sample_vol, "beads_supernatant",
                         "sample_plate", FALSE, TRUE)
             \o Move("sample_plate", transition_slot("P4"))
             \o WellToList("p1000m", "reagent_plate", "sample_plate", cols, TRUE)
             \o WellToList("p1000m", "reagent_plate", "sample_plate", cols, TRUE)
             \o CustomDelay("TE+Recon Buffer Beads Incubation")
             \o Move("sample_plate", "mag_block")
             \o CustomDelay("TE+Recon Buffer Beads Binding")
             \o UERemove(vols.te_1_vol + vols.recon_buffer_vol, "beads_supernatant",
                         "sample_plate", FALSE, TRUE)
             \o wash("P4", vols.ethanol_vol, cols, FALSE)
             \o wash("P4", vols.ethanol_vol, cols, FALSE)
             \o CustomDelay("air dry")
             \o Move("sample_plate", transition_slot("P4"))
             \o elution("P4", DRY, plan, cols, vols.te_2_out_vol)
             \o Pause("The protocol is complete. Please remove the final plate.")
             \o Lid("open_lid")
             \o Move("final_plate", transition_slot("P4"))
             \o Lid("close_lid"))

ue_run(file, vols, num_samples, DRY) ==
  ue_statements(file, vols, ue_cols(num_samples), ue_cols_m(num_samples),
                ue_cols_s(num_samples),
                TipPlan(file, ue_cols(num_samples)), DRY)


\* ------------------------------------------------------------ programs
\* the names of the volume parameters of an UltraExpress file
UEVolumeNames(file) == DOMAIN UEVolumes(file, "none")

\* num_samples as explored: out of range, a partial column, partial and
\* full columns, every number of columns from 1 to 12
UESampleCounts == {0, 1, 9, 17, 24, 32, 40, 48, 56, 64, 72, 80, 88, 96, 97}

NoShakeProgs == [N \in 1..12, DRY \in BOOLEAN |-> noShake_run(N, DRY)]
ShakeProgs ==
  [N \in 1..12, DRY \in BOOLEAN, NBIND \in 1..MaxBind, S \in BOOLEAN |->
     shake_run(N, DRY, NBIND, S)]
YeastProgs == [DRY \in BOOLEAN, USETEMP \in BOOLEAN |-> yeast_run(DRY, USETEMP)]
UEProgs ==
  [file \in UEFiles |->
     [n \in UESampleCounts, DRY \in BOOLEAN |->
        [o \in UEVolumeNames(file) \cup {"none"} |->
           ue_run(file, UEVolumes(file, o), n, DRY)]]]

\* the statements of run() for the protocol and parameters of this behaviour
Program ==
  CASE proto = "noShake" -> NoShakeProgs[params.N_SAMPLECOLS, params.DRYRUN]
    [] proto = "shake" -> ShakeProgs[params.N_SAMPLECOLS, params.DRYRUN,
                                     params.NBIND, params.STARTSHAKE]
    [] proto = "yeast" -> YeastProgs[params.DRYRUN, params.USETEMP]
    [] OTHER -> UEProgs[proto][params.num_samples, params.DRY_WATER_RUN][params.over]

Cur == Program[pc]
Running == mode = "run" /\ raised = None /\ pc <= Len(Program)
Done == mode = "run" /\ raised = None /\ pc > Len(Program)

\* ------------------------------------------------- runtime parameters
\* (DRYRUN, INPUTVOLUME, WASH1VOL, NBIND, STARTSHAKE) as explored together
Profiles == {<<FALSE, 420, 900, 1, TRUE>>, <<TRUE, 900, 100, MaxBind, FALSE>>}

NoShakeParams ==
  {[DRYRUN |-> pr[1], N_SAMPLECOLS |-> n, INPUTVOLUME |-> pr[2],
    WASH1VOL |-> pr[3], WASH2VOL |-> 500, DNASETREAT |-> d, DNASEVOL |-> 100,
    REBINDVOL |-> 500, ELUTEVOL |-> 50] :
   pr \in Profiles, n \in 1..12, d \in BOOLEAN}

ShakeParams ==
  {[DRYRUN |-> pr[1], STARTSHAKE |-> pr[5], N_SAMPLECOLS |-> n,
    INPUTVOLUME |-> pr[2], WASH1VOL |-> pr[3], WASH2VOL |-> 500,
    DNASETREAT |-> d, DNASEVOL |-> 100, REBINDVOL |-> 500, ELUTEVOL |-> 50,
    NBIND |-> pr[4]] :
   pr \in Profiles, n \in 1..12, d \in BOOLEAN}

YeastParams ==
  {[DRYRUN |-> dry, USETEMP |-> u, TEMP |-> 37, RPM |-> 1300] :
   dry \in BOOLEAN, u \in BOOLEAN}

UEParams(file) ==
  {[num_samples |-> n, over |-> o, vols |-> UEVolumes(file, o),
    DRY_WATER_RUN |-> dry] :
   n \in UESampleCounts, o \in UEVolumeNames(file) \cup {"none"},
   dry \in BOOLEAN}

RunParams(file) ==
  CASE file = "noShake" -> NoShakeParams
    [] file = "shake" -> ShakeParams
    [] file = "yeast" -> YeastParams
    [] OTHER -> UEParams(file)

\* mode "calls": which helper is called, on which tip type
CallParams(file) ==
  IF file \in TipFiles
  THEN {[call |-> f, tip_type |-> t] :
        f \in {"get_next_tip", "transfer_tracktips"}, t \in TipTypes}
  ELSE {[call |-> "remove", num_samples |-> n, vols |-> UEVolumes(file, "none")] :
        n \in {1, 96}}

\* ------------------------------------------- the deck as run() sets it up
InitLoc(file) ==
  CASE file = "noShake" ->
         [x \in {"tiprack1", "tiprack2", "tip1000_reuse", "SamplePlate",
                 "Wash1Res", "Wash2Res", "WasteRes", "ReagentPlate",
                 "ElutionPlate"} |->
            CASE x = "tiprack1" -> "B3"
              [] x = "tiprack2" -> "D4"
              [] x = "tip1000_reuse" -> "A3"
              [] x = "SamplePlate" -> OFF_DECK
              [] x = "Wash1Res" -> "A2"
              [] x = "Wash2Res" -> "B2"
              [] x = "WasteRes" -> "C3"
              [] x = "ReagentPlate" -> "D2"
              [] x = "ElutionPlate" -> OFF_DECK]
    [] file = "shake" ->
         [x \in {"tiprack1", "tiprack2", "tiprack3", "tip1000_reuse",
                 "SamplePlate", "Wash1Res", "Wash2Res", "WasteRes",
                 "ReagentPlate", "ElutionPlate"} |->
            CASE x = "tiprack1" -> "B3"
              [] x = "tiprack2" -> "C4"
              [] x = "tiprack3" -> "B4"
              [] x = "tip1000_reuse" -> "A3"
              [] x = "SamplePlate" -> "shake_adapter"
              [] x = "Wash1Res" -> "A2"
              [] x = "Wash2Res" -> "B2"
              [] x = "WasteRes" -> "C2"
              [] x = "ReagentPlate" -> "C3"
              [] x = "ElutionPlate" -> "D4"]
    [] file = "yeast" ->
         [x \in {"tiprack1", "SamplePlate", "ReagentPlate", "ElutionPlate"} |->
            CASE x = "tiprack1" -> "C3"
              [] x = "SamplePlate" -> "shake_adapter"
              [] x = "ReagentPlate" -> "C2"
              [] x = "ElutionPlate" -> "temp_adapter"]
    [] OTHER -> [x \in {} |-> ""]

InitActive(file) ==
  CASE file = "noShake" ->
         [tip50 |-> [deckslot |-> None, rack |-> None],
          tip1000 |-> [deckslot |-> "B3", rack |-> "tiprack1"]]
    [] file = "shake" ->
         [tip50 |-> [deckslot |-> None, rack |-> "tiprack2"],
          tip1000 |-> [deckslot |-> None, rack |-> "tiprack1"]]
    [] file = "yeast" ->
         [tip50 |-> [deckslot |-> None, rack |-> None],
          tip1000 |-> [deckslot |-> None, rack |-> "tiprack1"]]
    [] OTHER -> [tip50 |-> [deckslot |-> None, rack |-> None],
                 tip1000 |-> [deckslot |-> None, rack |-> None]]

InitBackup(file) ==
  CASE file = "noShake" -> [tip50 |-> <<>>, tip1000 |-> <<"tiprack2">>]
    [] file = "shake" -> [tip50 |-> <<>>, tip1000 |-> <<"tiprack3">>]
    [] OTHER -> [tip50 |-> <<>>, tip1000 |-> <<>>]

InitRacks(file) ==
  CASE file = "noShake" -> 2 [] file = "shake" -> 3 [] file = "yeast" -> 1
    [] OTHER -> 0

AllFiles == TipFiles \cup UEFiles

\* the context before the first statement of run()
Ctx0(file, p) ==
  [proto |-> file, params |-> p, loc |-> InitLoc(file),
   ACTIVE_TIPRACKS |-> InitActive(file), BACKUP_TIPRACKS |-> InitBackup(file),
   TIPS_USED |-> [tip50 |-> 0, tip1000 |-> 0], nracks |-> InitRacks(file),
   picked |-> {}, repick |-> FALSE,
   lastPick |-> [rack |-> None, col |-> 0, tip |-> None],
   hold |-> [p50 |-> <<>>, p1000 |-> <<>>],
   raised |-> None, lastSwap |-> [fn |-> None], lastCall |-> [fn |-> None],
   WASTEVOL |-> 0, reservoir |-> 0, tipvol |-> 0, wastePauses |-> 0,
   dnase |-> [col \in 1..12 |-> <<>>], rebind |-> [col \in 1..12 |-> <<>>],
   rebindSrc |-> [col \in 3..6 |-> 0],
   latch |-> "idle", shaking |-> FALSE, log |-> <<>>, hw |-> 0,
   occupied |-> {}, lid |-> "unknown",
   tips |-> [count |-> [p50m |-> 0, p1000m |-> 0],
             order |-> [p50m |-> 0, p1000m |-> 0],
             racks |-> <<>>, extra |-> <<>>]]

\* A behaviour runs run() from its first statement, or calls helpers on the
\* deck as run() has set it up.
Init ==
  \E file \in AllFiles, m \in {"run", "calls"} :
    /\ m = "calls" => file # "P3"
    /\ \E p \in (IF m = "run" THEN RunParams(file) ELSE CallParams(file)) :
         \E c \in {IF m = "calls" /\ file \in UEFiles
                    THEN ue_setup(Ctx0(file, p), file, ue_cols(p.num_samples))
                    ELSE Ctx0(file, p)} :
             /\ proto = file
             /\ mode = m
             /\ params = p
             /\ pc = 1
             /\ ncalls = [calls |-> 0, swaps |-> 0]
             /\ loc = c.loc
             /\ ACTIVE_TIPRACKS = c.ACTIVE_TIPRACKS
             /\ BACKUP_TIPRACKS = c.BACKUP_TIPRACKS
             /\ TIPS_USED = c.TIPS_USED
             /\ nracks = c.nracks
             /\ picked = c.picked
             /\ repick = c.repick
             /\ lastPick = c.lastPick
             /\ hold = c.hold
             /\ raised = c.raised
             /\ lastSwap = c.lastSwap
             /\ lastCall = c.lastCall
             /\ WASTEVOL = c.WASTEVOL
             /\ reservoir = c.reservoir
             /\ tipvol = c.tipvol
             /\ wastePauses = c.wastePauses
             /\ dnase = c.dnase
             /\ rebind = c.rebind
             /\ rebindSrc = c.rebindSrc
             /\ latch = c.latch
             /\ shaking = c.shaking
             /\ log = c.log
             /\ hw = 0
             /\ occupied = c.occupied
             /\ lid = c.lid
             /\ tips = c.tips


\* ------------------------------------------------------ helpers of run()
LabwareAt(c, slot) ==
  IF \E x \in DOMAIN c.loc : c.loc[x] = slot
  THEN CHOOSE x \in DOMAIN c.loc : c.loc[x] = slot
  ELSE None

\* shake: reload_tips
reload_tips(c) ==
  LET c1 == load_new_tips(c, "tip1000", EMPTYOFFDECKSLOT)
      c2 == load_backup_tips(load_labware(c1, OFF_DECK), "tip1000", NewRack(c1))
      old == LabwareAt(c2, "B4")
  IN  IF c1.raised # None THEN c1
      ELSE IF old = None THEN Raise(c2, "TypeError")
      ELSE move_labware(move_labware(c2, old, OFF_DECK),
                        c2.BACKUP_TIPRACKS["tip1000"][1], "B4")

\* the add-wash body of wash_plate: pick_up_tip(tip_rack[X]), transfer,
\* drop_tip(tip_rack[X])
wash_add(c, col, volume) ==
  drop_tip([pick_up_tip(c, "p1000", "tip1000_reuse", col) EXCEPT !.hw = @ + 1],
           "p1000")

\* the body of the rebind loop: aspirate REBINDVOL from the binding-buffer
\* column, dispense it into sample column Y
rebind_dispense(c, source, Y, volume) ==
  [c EXCEPT !.hw = @ + 2,
            !.rebind[Y] = Append(@, volume),
            !.rebindSrc[source] = @ + 1]

Pip(tip_type) == IF tip_type = "tip50" THEN "p50" ELSE "p1000"

\* ------------------------------------------------------------- actions
Step(c) ==
  /\ Apply(c)
  /\ pc' = pc + 1
  /\ UNCHANGED <<proto, mode, params, ncalls>>

MoveLabware ==
  /\ Running /\ Cur.op = "move_labware"
  /\ Step(move_labware(Ctx, Cur.a, Cur.b))

PauseStep ==
  /\ Running /\ Cur.op = "pause"
  /\ Step(Record(Ctx, <<"pause", Cur.a>>))

DelayStep ==
  /\ Running /\ Cur.op = "delay"
  /\ Step(Record(Ctx, <<"delay", Cur.a>>))

TempBlockStep ==
  /\ Running /\ Cur.op = "temp_block"
  /\ Step([Ctx EXCEPT !.hw = @ + 1])

ShakerStep ==
  /\ Running /\ Cur.op = "shaker"
  /\ Step(shaker_cmd(Ctx, Cur.a))

GetNextTipStep ==
  /\ Running /\ Cur.op = "get_next_tip"
  /\ Step(get_next_tip(Ctx, Cur.a, Cur.b))

DropTipStep ==
  /\ Running /\ Cur.op = "drop_tip"
  /\ Step(drop_tip(Ctx, Cur.a))

PickUpTipStep ==
  /\ Running /\ Cur.op = "pick_up_tip"
  /\ Step(pick_up_tip(Ctx, Cur.a, Cur.b, Cur.c))

RemoveSupCheck ==
  /\ Running /\ Cur.op = "removeSup_check"
  /\ Step(removeSup_check(Ctx, Eval(params, Cur.b)))

RemoveSupDispense ==
  /\ Running /\ Cur.op = "removeSup_dispense"
  /\ Step(removeSup_dispense(Ctx))

TransferTracktipsStep ==
  /\ Running /\ Cur.op = "transfer_tracktips"
  /\ Step(transfer_tracktips(Ctx, Cur.a, Cur.b, Cur.c, Cur.d, Cur.e[1],
                             Eval(params, Cur.e[2])))

WashAddStep ==
  /\ Running /\ Cur.op = "wash_add"
  /\ Step(wash_add(Ctx, Cur.a, Eval(params, Cur.b)))

RebindDispenseStep ==
  /\ Running /\ Cur.op = "rebind_dispense"
  /\ Step(rebind_dispense(Ctx, Cur.a, Cur.b, params.REBINDVOL))

SwapTipsStep ==
  /\ Running /\ Cur.op = "swap_tips"
  /\ Step(swap_tips(Ctx, Cur.a, Cur.b))

ReloadTipsStep ==
  /\ Running /\ Cur.op = "reload_tips"
  /\ Step(reload_tips(Ctx))

SwapLabwareStep ==
  /\ Running /\ Cur.op = "swap_labware"
  /\ Step(swap_labware(Ctx, Cur.a,
                       IF Cur.b = "ACTIVE tip50"
                       THEN ACTIVE_TIPRACKS["tip50"].rack ELSE Cur.b,
                       Cur.c))

UEValidateStep ==
  /\ Running /\ Cur.op = "ue_validate"
  /\ Step(ue_validate(Ctx, proto, params.num_samples, params.vols))

UESetupStep ==
  /\ Running /\ Cur.op = "ue_setup"
  /\ Step(ue_setup(Ctx, proto, ue_cols(params.num_samples)))

UERemoveStep ==
  /\ Running /\ Cur.op = "ue_remove"
  /\ Step(remove(Ctx, proto, Cur.a, Cur.b, ue_cols(params.num_samples),
                 Cur.c, Cur.d, Cur.e))

UEPickUpStep ==
  /\ Running /\ Cur.op = "ue_pick_up"
  /\ Step(IF Cur.a = "p1000m" THEN pick_up_200(Ctx) ELSE pick_up_50(Ctx))

WellToListStep ==
  /\ Running /\ Cur.op = "well_to_list"
  /\ Step(well_to_list(Ctx, Cur.a, Cur.d, Cur.e))

PartialColumnStep ==
  /\ Running /\ Cur.op = "partial_column"
  /\ Step(partial_column(Ctx, Cur.a))

CustomDelayStep ==
  /\ Running /\ Cur.op = "custom_delay"
  /\ Step([Ctx EXCEPT !.hw = @ + 1])

LidStep ==
  /\ Running /\ Cur.op = "lid"
  /\ Step(lid_cmd(Ctx, Cur.a))

\* set_block_temperature, with or without a hold, and execute_profile
ThermocyclerStep ==
  /\ Running /\ Cur.op \in {"tc_hold", "tc_set", "tc_profile"}
  /\ Step([Ctx EXCEPT !.hw = @ + 1])

TipResetStep ==
  /\ Running /\ Cur.op = "tip_reset"
  /\ Step([Ctx EXCEPT !.tips.count[Cur.a] = 0])

\* ---- mode "calls": the helpers called directly
Called(c, swap) ==
  /\ Apply(c)
  /\ ncalls' = [calls |-> ncalls.calls + 1, swaps |-> ncalls.swaps + swap]
  /\ UNCHANGED <<proto, mode, params, pc>>

Calling == mode = "calls" /\ raised = None

CallGetNextTip ==
  /\ Calling /\ proto \in TipFiles /\ params.call = "get_next_tip"
  /\ ncalls.calls < MaxCalls
  /\ LET t == params.tip_type
         c1 == get_next_tip(Ctx, Pip(t), t)
     IN  Called(IF c1.raised # None THEN c1 ELSE drop_tip(c1, Pip(t)), 0)

CallTransferTracktips ==
  /\ Calling /\ proto \in TipFiles /\ params.call = "transfer_tracktips"
  /\ ncalls.calls < MaxCalls
  /\ \E source \in SourceShapes :
       Called(transfer_tracktips(Ctx, Pip(params.tip_type), source,
                                 params.tip_type, "", 1, 0), 0)

\* swap_tips as run() calls it: for tip50 with new_slot 'A3', for tip1000
\* without; load_new_tips as reload_tips calls it
CallSwap ==
  /\ Calling /\ proto \in TipFiles
  /\ ncalls.calls < MaxCalls /\ ncalls.swaps < MaxSwapCalls
  /\ LET t == params.tip_type
     IN  Called(IF proto = "noShake"
                THEN swap_tips(Ctx, t, IF t = "tip50" THEN "A3" ELSE None)
                ELSE load_new_tips(Ctx, t, EMPTYOFFDECKSLOT), 1)

RemoveVolumes == {50, 200, 1500, 1800, 2000, 2010}
RemoveModes == {"beads_supernatant", "binding_buffer", "washing_buffer_1",
                "tris_binding_mm", "washing_buffer_2", "elution", "ethanol",
                "supernatant"}

CallRemove ==
  /\ Calling /\ proto \in UEFiles /\ params.call = "remove"
  /\ ncalls.calls < MaxRemoveCalls
  /\ \E re_vol \in RemoveVolumes, rmode \in RemoveModes :
       Called(remove(Ctx, proto, re_vol, rmode, ue_cols(params.num_samples),
                     "sample_plate", FALSE, TRUE), 0)

Next ==
  \/ MoveLabware \/ PauseStep \/ DelayStep \/ TempBlockStep \/ ShakerStep
  \/ GetNextTipStep \/ DropTipStep \/ PickUpTipStep
  \/ RemoveSupCheck \/ RemoveSupDispense
  \/ TransferTracktipsStep \/ WashAddStep \/ RebindDispenseStep
  \/ SwapTipsStep \/ ReloadTipsStep \/ SwapLabwareStep
  \/ UEValidateStep \/ UESetupStep \/ UERemoveStep
  \/ UEPickUpStep \/ WellToListStep \/ PartialColumnStep \/ CustomDelayStep
  \/ LidStep \/ ThermocyclerStep \/ TipResetStep
  \/ CallGetNextTip \/ CallTransferTracktips \/ CallSwap \/ CallRemove

Spec == Init /\ [][Next]_vars


\* ================================================================ claims
BombBio == {"noShake", "shake"}
BombBioRun == mode = "run" /\ proto \in BombBio

\* C1: in both BombBio protocols DNASETREAT controls the DNase step: when it
\* is false no DNase is transferred to any sample column, when it is true
\* every sample column has received DNASEVOL of DNase exactly once by the
\* end of the run.
C1_DnaseTreatControls ==
  BombBioRun =>
    /\ ~params.DNASETREAT => \A col \in 1..12 : dnase[col] = <<>>
    /\ (params.DNASETREAT /\ Done) =>
         \A col \in 1..12 :
           dnase[col] = IF col <= params.N_SAMPLECOLS
                        THEN <<params.DNASEVOL>> ELSE <<>>

\* C2: after any sequence of get_next_tip calls 0 <= tips_used <= 12, every
\* pick is a column A1..A12, the columns picked from the active rack are
\* among its first tips_used columns, the last pick from the active rack is
\* column tips_used, and no column of any rack is picked up twice.
C2_TipRotation ==
  proto \in TipFiles =>
    /\ \A t \in TipTypes : TIPS_USED[t] \in 0..RackCols
    /\ \A pr \in picked : pr[2] \in 1..RackCols
    /\ ~repick
    /\ \A t \in TipTypes : \A pr \in picked :
         pr[1] = ACTIVE_TIPRACKS[t].rack => pr[2] <= TIPS_USED[t]
    /\ (lastPick.rack # None
        /\ lastPick.rack = ACTIVE_TIPRACKS[lastPick.tip].rack)
         => lastPick.col = TIPS_USED[lastPick.tip]

\* a third rack is in use after two swaps made by get_next_tip
C2_Witness ==
  /\ proto \in TipFiles
  /\ Cardinality(picked) > 2 * RackCols
  /\ lastPick.rack = ACTIVE_TIPRACKS[lastPick.tip].rack
  /\ lastSwap.fn # None

\* C3: after swap_tips / load_new_tips the new box is the active rack and is
\* not the old box; it sits in the slot the old box occupied and the old box
\* has left that slot; if a backup existed the new box is that backup and
\* the backup list is one shorter, otherwise a fresh rack was loaded.
C3_SwapPostcondition ==
  lastSwap.fn # None =>
    /\ lastSwap.new \notin {None, lastSwap.old}
    /\ lastSwap.old # None =>
         /\ lastSwap.newloc = lastSwap.oldloc
         /\ lastSwap.oldlocAfter # lastSwap.oldloc
    /\ lastSwap.old = None => lastSwap.newloc = lastSwap.deckslot
    /\ IF lastSwap.old # None /\ lastSwap.nbackup > 0
       THEN /\ lastSwap.new = lastSwap.top
            /\ lastSwap.nbackupAfter = lastSwap.nbackup - 1
            /\ lastSwap.nracksAfter = lastSwap.nracks
       ELSE /\ lastSwap.new = Rack(lastSwap.nracksAfter)
            /\ lastSwap.nbackupAfter = lastSwap.nbackup
            /\ lastSwap.nracksAfter = lastSwap.nracks + 1

\* a swap that consumed the on-deck backup
C3_Witness ==
  /\ lastSwap.fn # None
  /\ lastSwap.old # None
  /\ lastSwap.nbackup = 1
  /\ lastSwap.nbackupAfter = 0

\* C4: swap_tips returns the new tip-box count to its caller: the value it
\* returns is not None.
C4_SwapTipsReturnsCount ==
  lastSwap.fn = "swap_tips" => lastSwap.val # None

\* C5: COUNTERS['WASTEVOL'] is 8 times the supernatant sent to the waste
\* reservoir since it was last emptied (what is in the reservoir plus what
\* the pipette holds on its way there), and once it exceeds 150000 a pause
\* has been issued before the dispense.
C5_WasteTracked ==
  BombBioRun =>
    /\ WASTEVOL = reservoir + tipvol
    /\ (tipvol > 0 /\ WASTEVOL > WasteLimit) => wastePauses > 0

\* C6: in UltraExpress P1..P4, once the error handling of run() has
\* executed, a num_samples outside 1..96 or a reagent volume above 200 uL
\* has raised ValueError and no hardware command has been issued.
ReagentVolumes(file) == UEVolumeNames(file) \ {"sample_vol"}

C6_ValidationFirst ==
  (mode = "run" /\ proto \in UEFiles /\ pc > 1) =>
    /\ (params.num_samples < 1 \/ params.num_samples > 96) =>
         /\ raised = "The number of samples should be between 1 and 96"
         /\ hw = 0 /\ pc = 2
    /\ (params.num_samples \in 1..96
        /\ \E name \in ReagentVolumes(proto) : params.vols[name] > 2000) =>
         /\ raised = "The volume should be equal to or less than 200 uL"
         /\ hw = 0 /\ pc = 2

\* a run stopped by the volume check
C6_Witness ==
  /\ mode = "run" /\ proto \in UEFiles /\ pc = 2
  /\ params.num_samples \in 1..96
  /\ raised = "The volume should be equal to or less than 200 uL"

\* C7: remove raises 'A wrong mode is used' for every mode it has no
\* handling branch for, 'A wrong volume is used' for re_vol > 200, and
\* accepts every mode it has a handling branch for (beads_supernatant,
\* ethanol, elution and, in P1, the buffer modes).
BranchModes(file) ==
  {m \in RemoveModes : RemoveBranch(file, m) \notin {"none", "else"}}
  \cup (IF file = "P1"
        THEN {"binding_buffer", "washing_buffer_1", "tris_binding_mm",
              "washing_buffer_2"}
        ELSE {})

C7_RemoveModes ==
  lastCall.fn = "remove" =>
    IF lastCall.mode \notin BranchModes(proto)
    THEN raised = "A wrong mode is used"
    ELSE IF lastCall.re_vol > 2000
    THEN raised = "A wrong volume is used"
    ELSE raised = None

\* C8: transfer_tracktips called with a list of lists as source raises
\* 'Source is more than one column' with no tip picked up and the tips_used
\* counter unchanged.
C8_SourceCheckedFirst ==
  (lastCall.fn = "transfer_tracktips" /\ lastCall.source = "columns") =>
    /\ raised = "Source is more than one column"
    /\ TIPS_USED = lastCall.used
    /\ hold = lastCall.hold
    /\ hw = lastCall.hw

\* the call is refused after tips have been used
C8_Witness ==
  /\ raised = "Source is more than one column"
  /\ lastCall.fn = "transfer_tracktips"
  /\ \E t \in TipTypes : TIPS_USED[t] > 0

\* C9: Yeast_OPP_v1 issues, after the pause 'Resume at t=0', for sample
\* columns 1..6 in order: one delay (300 s before the first quench, 290 s
\* before each later one, 0.01 s in a dry run), then 100 uL of reagent into
\* the column, then 1000 uL of the column to the same column of the elution
\* plate, which stays on the temperature block.
QuenchLog(dry) ==
  <<<<"pause", "Resume at t=0">>>>
  \o Flatten([k \in 1..6 |->
       <<<<"delay", IF dry THEN 1 ELSE IF k = 1 THEN 30000 ELSE 29000>>,
         <<"quench_reagent", k, 100>>,
         <<"quench_sample", k, 1000>>>>])

C9_QuenchSchedule ==
  (mode = "run" /\ proto = "yeast") =>
    /\ Len(log) <= Len(QuenchLog(params.DRYRUN))
    /\ log = SubSeq(QuenchLog(params.DRYRUN), 1, Len(log))
    /\ Done => log = QuenchLog(params.DRYRUN)
    /\ loc["ElutionPlate"] = "temp_adapter"

\* a timed run that has quenched all six columns
C9_Witness ==
  /\ Done /\ proto = "yeast" /\ ~params.DRYRUN
  /\ Len(log) = 19

\* C10: at the end of a BombBio run every sample column has received
\* REBINDVOL of binding buffer exactly once, and the k-th binding-buffer
\* column has served sample columns 4k-3..4k (as far as there are any).
C10_RebindAllColumns ==
  (BombBioRun /\ Done) =>
    /\ \A col \in 1..params.N_SAMPLECOLS : rebind[col] = <<params.REBINDVOL>>
    /\ \A k \in 1..4 :
         LET served == {col \in 1..params.N_SAMPLECOLS :
                          4 * k - 3 <= col /\ col <= 4 * k}
         IN  served # {} => rebindSrc[k + 2] = Cardinality(served)

\* ------------------------------------------------------------------ C11
\* a run of run(), as opposed to helper calls made on the deck it set up
ProtocolRun == mode = "run"

\* the labware other than x that stands where x stands
SharesPlace(x) ==
  {y \in DOMAIN loc : y # x /\ loc[y] = loc[x] /\ loc[x] \notin Unbounded}

\* C11: during a run of any protocol no move_labware call and no
\* load_labware call has put a labware on a deck slot, expansion slot,
\* adapter or module where another labware stood at that moment, so no two
\* labware ever stand in the same place (off-deck and the waste chute hold
\* any number).
C11_NoOccupiedTarget ==
  ProtocolRun =>
    /\ occupied = {}
    /\ \A x \in DOMAIN loc : SharesPlace(x) = {}

\* an UltraExpress run whose gripper has rotated the racks: the first rack
\* went down the chute and the expansion racks took the regular slots
C11_Witness ==
  /\ ProtocolRun /\ proto \in UEFiles /\ raised = None
  /\ tips.racks # <<>> /\ tips.extra = <<>>
  /\ loc[tips.racks[1]] = "chute"
  /\ \E x \in DOMAIN loc : loc[x] \in {"A2", "B2", "D2"} /\ x \notin {"waste_res"}
  /\ occupied = {}

\* ------------------------------------------------------------------ C12
\* the next statement aspirates from or dispenses into the sample plate
TouchesSamplePlate ==
  Cur.op \in {"transfer_tracktips", "wash_add", "removeSup_check",
              "rebind_dispense"}

\* the next statement moves the sample plate onto or off the heater-shaker
MovesOverShaker ==
  /\ Cur.op = "move_labware" /\ Cur.a = "SamplePlate"
  /\ "shake_adapter" \in {Cur.b, loc["SamplePlate"]}

\* C12: in a run of the shake or the Yeast_OPP protocol the shaker shakes
\* only with the latch closed; the latch is not opened while shaking; the
\* shaker is not started with the latch open; the sample plate is moved
\* onto or off the shaker only with the latch open and the shaker stopped;
\* and no transfer touches the plate on the shaker while it is shaking.
C12_ShakerInterlock ==
  (ProtocolRun /\ proto \in {"shake", "yeast"}) =>
    /\ shaking => latch = "closed"
    /\ Running =>
         /\ (Cur.op = "shaker" /\ Cur.a = "open_labware_latch") => ~shaking
         /\ (Cur.op = "shaker" /\ Cur.a = "set_and_wait_for_shake_speed")
              => latch # "open"
         /\ MovesOverShaker => (latch = "open" /\ ~shaking)
         /\ (TouchesSamplePlate /\ loc["SamplePlate"] = "shake_adapter")
              => ~shaking

\* a shake run that has put the plate back on the shaker, added DNase to it
\* there and now shakes it
C12_Witness ==
  /\ ProtocolRun /\ proto = "shake" /\ Running
  /\ loc["SamplePlate"] = "shake_adapter"
  /\ dnase[1] # <<>>
  /\ shaking /\ latch = "closed"

\* ------------------------------------------------------------------ C13
\* the plates the next statement aspirates from or dispenses into; remove()
\* in mode "elution" dispenses into the final plate
PipettedPlates ==
  CASE Cur.op \in {"well_to_list", "partial_column"} -> {Cur.b, Cur.c}
    [] Cur.op = "ue_remove" ->
         {Cur.c} \cup (IF Cur.b = "elution" THEN {"final_plate"} ELSE {})
    [] OTHER -> {}

\* the next statement moves a plate onto or off the thermocycler
MovesOverThermocycler ==
  /\ Cur.op = "move_labware"
  /\ "thermocycler" \in {Cur.b, loc[Cur.a]}

\* C13: in a run of UltraExpress P1..P4 a plate is moved onto or off the
\* thermocycler only while the lid is open, a pipette aspirates from or
\* dispenses into a plate that stands on the thermocycler only while the
\* lid is open, and every block hold and every profile starts with the lid
\* closed (nothing opens it before the hold has ended).
C13_ThermocyclerInterlock ==
  (ProtocolRun /\ proto \in UEFiles /\ Running) =>
    /\ MovesOverThermocycler => lid = "open"
    /\ (\E plate \in PipettedPlates :
          plate \in DOMAIN loc /\ loc[plate] = "thermocycler") => lid = "open"
    /\ Cur.op \in {"tc_hold", "tc_profile"} => lid = "closed"

\* a P1 run that has cycled the sample plate, moved it off and the final
\* plate onto the thermocycler, and is about to elute into the final plate
C13_Witness ==
  /\ ProtocolRun /\ proto = "P1" /\ Running /\ ~params.DRY_WATER_RUN
  /\ Cur.op = "ue_remove" /\ Cur.b = "elution"
  /\ loc["final_plate"] = "thermocycler" /\ loc["sample_plate"] = "mag_block"
  /\ lid = "open"

\* ------------------------------------------------------------------ C14
\* the plate the next statement removes supernatant, wash or eluate from:
\* removeSup and the eluate transfer of the BombBio files, remove() of
\* UltraExpress
RemovedFrom ==
  CASE Cur.op = "removeSup_check" -> {"SamplePlate"}
    [] Cur.op = "transfer_tracktips" /\ Cur.d = "elute_out" -> {"SamplePlate"}
    [] Cur.op = "ue_remove" -> {Cur.c}
    [] OTHER -> {}

\* C14: in a run of any protocol, whenever removeSup or remove is about to
\* aspirate supernatant, wash or eluate from a plate, that plate stands on
\* the magnetic block (it was moved there and has not been moved off).
C14_RemoveOnMagnet ==
  (ProtocolRun /\ Running) =>
    \A plate \in RemovedFrom : loc[plate] = "mag_block"

\* a shake run that has removed the lysate, washed, treated with DNase and
\* re-bound on the shaker, and is about to remove the binding buffer
C14_Witness ==
  /\ ProtocolRun /\ proto = "shake" /\ Running
  /\ Cur.op = "removeSup_check"
  /\ WASTEVOL > 0 /\ rebind[1] # <<>>
  /\ loc["SamplePlate"] = "mag_block"

\* ------------------------------------------------------------------ C15
\* SAMPLEPOS as run() passes it to wash_plate
SamplePos == IF proto = "noShake" THEN "C2" ELSE "temp_adapter"

\* the statement about to run is the first of a wash_plate call
WashEntry ==
  /\ BombBioRun /\ Running /\ Cur.op = "wash_add"
  /\ Program[pc - 1].op # "wash_add"

\* the statement that ran last was the last of a wash_plate call
WashReturn ==
  /\ BombBioRun /\ raised = None /\ pc > 5
  /\ Program[pc - 1].op = "move_labware"
  /\ Program[pc - 2].op = "drop_tip" /\ Program[pc - 5].op = "pick_up_tip"

\* the statements that run from position i on are those of one wash_plate
\* call for N columns and wash volume vol: N additions (columns 1..N), the
\* move to the magnet, the settling delay (present when not a dry run),
\* N removals of vol + 25 (columns 1..N, each between taking and dropping
\* the column's tip), the move back to SAMPLEPOS
WashOrder(i, N, vol) ==
  LET settle == IF Program[i + N + 1].op = "delay" THEN 1 ELSE 0
      r == i + N + 1 + settle
  IN  /\ Len(Program) >= r + 4 * N
      /\ \A k \in 1..N :
           /\ Program[i + k - 1].op = "wash_add"
           /\ Program[i + k - 1].a = k
           /\ Eval(params, Program[i + k - 1].b) = vol
      /\ Program[i + N] = Ins("move_labware", "SamplePlate", "mag_block", 0, 0, 0)
      /\ ~params.DRYRUN => settle = 1
      /\ \A k \in 1..N :
           /\ Program[r + 4 * (k - 1)] = Ins("pick_up_tip", "p1000", "tip1000_reuse", k, 0, 0)
           /\ Program[r + 4 * (k - 1) + 1].op = "removeSup_check"
           /\ Program[r + 4 * (k - 1) + 1].a = k
           /\ Eval(params, Program[r + 4 * (k - 1) + 1].b) = vol + 25
           /\ Program[r + 4 * (k - 1) + 2].op = "removeSup_dispense"
           /\ Program[r + 4 * (k - 1) + 3].op = "drop_tip"
      /\ Program[r + 4 * N] = Ins("move_labware", "SamplePlate", SamplePos, 0, 0, 0)

\* C15: in a noShake or shake run every wash_plate call adds the wash to
\* every sample column while the plate is at SAMPLEPOS, then moves the plate
\* to the magnetic block, then waits for the beads to settle (always when
\* not a dry run), then removes WASHVOL + 25 from every sample column, then
\* moves the plate back; on return the plate is at SAMPLEPOS, and each
\* column got the wash once and lost it once.
C15_WashPlateOrder ==
  /\ (BombBioRun /\ Running /\ Cur.op = "wash_add") =>
        loc["SamplePlate"] = SamplePos
  /\ WashEntry => WashOrder(pc, params.N_SAMPLECOLS, Eval(params, Cur.b))
  /\ WashReturn => loc["SamplePlate"] = SamplePos

\* a timed shake run just after a wash_plate call has returned
C15_Witness ==
  /\ WashReturn /\ proto = "shake" /\ ~params.DRYRUN
  /\ Program[pc - 3].op = "removeSup_dispense"
  /\ WASTEVOL > 0 /\ loc["SamplePlate"] = "temp_adapter"

====
